---- MODULE Spec2Model ----
(***************************************************************************)
(* A model of parts of the relay:                                          *)
(*   - the rate-limit enforcer (relay-server/src/utils/rate_limits.rs),    *)
(*     specification SpecLimiter;                                          *)
(*   - the relay-info cache actor (relay-server/src/actors/keys.rs),       *)
(*     specification SpecKeys;                                             *)
(*   - the attachment scrubber (relay-general/src/pii/attachments.rs),     *)
(*     specification SpecScrub;                                            *)
(*   - the project cache actor (relay-server/src/actors/project_cache.rs), *)
(*     specification SpecProjects;                                         *)
(*   - functions of their input, specification SpecPure: the conversion    *)
(*     of the data scrubbing configuration into a PII configuration        *)
(*     (general/src/datascrubbing/convert.rs), the rate-limit header       *)
(*     (relay-server/src/utils/rate_limits.rs) and the conversion of the   *)
(*     relay-info response (relay-server/src/actors/keys.rs), the builtin  *)
(*     rules (general/src/pii/builtin.rs), the segment iterator and the    *)
(*     match projection of the attachment scrubber                         *)
(*     (relay-general/src/pii/attachments.rs), the future returned for a   *)
(*     FetchProjectState (relay-server/src/actors/project_cache.rs),       *)
(*     Config::replace_credentials (relay-config/src/config.rs) and        *)
(*     send_with_outcome_error (relay-server/src/utils/with_outcome.rs).   *)
(* Each specification moves only the variables of its part.                *)
(***************************************************************************)
EXTENDS Integers, Sequences, FiniteSets, TLC

VARIABLES
  \* ---- rate-limit enforcer
  envelope,      \* Envelope::items, in order
  assumed,       \* EnvelopeLimiter::event_category as set by assume_event
  checkAns,      \* what the check callback has answered so far, per category
  passes,        \* number of enforce runs so far
  last,          \* the last enforce run: its input, its calls and its result
  trail,         \* the envelope as submitted, then as left by each enforce run
  \* ---- relay-info cache
  has_credentials,     \* Config::credentials is Some
  relays,              \* RelayInfoCache::relays
  relay_info_channels, \* RelayInfoCache::relay_info_channels
  backoff,             \* RelayInfoCache::backoff, its attempt counter
  timers,              \* number of fetch_keys calls scheduled with run_later
  requests,            \* upstream queries sent and not yet answered
  callers,             \* the responses handed out by get_or_fetch_info
  next_channel,        \* identity of the next RelayInfoChannel::new
  now,                 \* Instant::now
  sent,                \* the relay_ids of the upstream queries so far
  epoch,               \* per id, how often its channel was drained or put back
  cancelled,           \* the callers that dropped their response future
  \* ---- attachment scrubber
  compiled_config, \* CompiledPiiConfig::applications
  original,      \* the attachment as handed to scrub_attachment
  attachment,    \* the attachment, the data of scrub_attachment
  result,        \* what scrub_attachment returned, or that it panicked
  ranges,        \* the ranges of the attachment handed to apply_redaction
  \* ---- project cache
  projects,      \* ProjectCache::projects, the ids it holds an Addr<Project> for
  updates,       \* ProjectCache::updates, front first
  fetching,      \* the ids whose FetchProjectState response is still pending
  started,       \* the ids a Project actor was started for
  clock,         \* Instant::now
  message,       \* the id of the FetchProjectState message handled last
  \* ---- functions of their input
  part,          \* the function whose input was drawn
  \* ---- the rate-limit header
  rate_limits,   \* the RateLimits value given to format_rate_limits
  header,        \* the header: whether it was written, and its text
  parsed,        \* the result of parse_rate_limits, once it returned
  \* ---- the relay-info response
  relays_info,   \* the response as deserialized (PublicKeysResultCompatibility)
  relays_result, \* the GetRelaysInfoResult converted from it
  \* ---- a builtin rule applied to a text
  text_rule,     \* the rule id of the application, and whether the text has a match
  remarks,       \* the remarks of the text after process_value
  \* ---- the segments of a buffer
  iter,          \* the MutSegmentIter: its data, its decoder and its offset
  scanned,       \* the passes of the loop in the last call of next
  segments,      \* the segments yielded so far
  nexts,         \* what the calls of next returned so far
  \* ---- a match in the text of a segment
  matched,       \* the text, its encoding, and the chars from..to of the match
  match_wstr,    \* the range get_wstr_match returned, once it was called
  \* ---- the future of one FetchProjectState
  fetch,         \* the build and the caches of the ProjectCache, and the source whose reply is awaited
  lookups,       \* the sources queried so far, each with its reply
  project_state, \* what the future resolved to
  \* ---- the credentials of the configuration
  credentials,   \* Config::credentials
  credentials_file, \* the credentials the file of the config folder holds
  replaced,      \* the calls of replace_credentials: the last one, and their number
  \* ---- a message sent with an outcome for its failure
  delivery,      \* the outcome given, and what became of the message
  outcomes,      \* the outcomes handed to the outcome producer
  resolved,      \* what the returned future resolved to
  \* ---- conversion of the data scrubbing configuration
  datascrubbing_config, \* the DataScrubbingConfig handed to to_pii_config
  pii_config,    \* what to_pii_config returned, if it was called and did not panic
  node,          \* the path of the node the processor is at
  applied        \* the ids of the rules applied at the node

limVars == <<envelope, assumed, checkAns, passes, last, trail>>

keysVars == <<has_credentials, relays, relay_info_channels, backoff, timers, requests,
              callers, next_channel, now, sent, epoch, cancelled>>

scrubVars == <<compiled_config, original, attachment, result, ranges>>

projVars == <<projects, updates, fetching, started, clock, message>>

\* The variables of the parts that are functions of their input.
pureVars == <<part, datascrubbing_config, pii_config, node, applied,
             rate_limits, header, parsed, relays_info, relays_result,
             credentials, credentials_file, replaced,
             delivery, outcomes, resolved,
             text_rule, remarks,
             iter, scanned, segments, nexts,
             matched, match_wstr,
             fetch, lookups, project_state>>

vars == <<limVars, keysVars, scrubVars, projVars, pureVars>>

None == "none"

Max(a, b) == IF a >= b THEN a ELSE b

Min(a, b) == IF a <= b THEN a ELSE b

(***************************************************************************)
(* Rate-limit enforcer                                                     *)
(***************************************************************************)

\* Bounds of the enforcer model.
MaxItems == 2

MaxPasses == 2

ItemType == {"event", "transaction", "security", "raw_security", "attachment",
             "session", "sessions", "metrics", "metric_buckets", "form_data",
             "user_report", "unreal_report"}

DataCategory == {"default", "error", "transaction", "security", "attachment", "session"}

\* What one invocation of the check callback can return: no active limit,
\* an active limit, or an error.
Answers == {"pass", "limit", "err"}

\* Item::creates_event: literal events and crash-report attachments.
creates_event(item) ==
  \/ item.ty \in {"event", "transaction", "security", "raw_security", "unreal_report"}
  \/ item.ty = "attachment" /\ item.attachment_type = "minidump"

\* Item::requires_event: everything except session and metric items.
requires_event(item) ==
  item.ty \in {"event", "transaction", "security", "raw_security", "attachment",
               "form_data", "unreal_report", "user_report"}

\* The items the ingestion layer hands to the limiter (without their id).
GenItems ==
  {[ty |-> "session", attachment_type |-> None, len |-> 10, rate_limited |-> r] :
      r \in BOOLEAN}
  \cup {[ty |-> t, attachment_type |-> None, len |-> 10, rate_limited |-> FALSE] :
      t \in {"event", "transaction", "security", "sessions", "user_report"}}
  \cup {[ty |-> "attachment", attachment_type |-> a, len |-> l, rate_limited |-> r] :
      a \in {"attachment", "minidump"}, l \in {0, 10}, r \in BOOLEAN}

infer_event_category(item) ==
  CASE item.ty = "event" -> "error"
    [] item.ty = "transaction" -> "transaction"
    [] item.ty \in {"security", "raw_security"} -> "security"
    [] item.ty = "unreal_report" -> "error"
    [] item.ty = "attachment" /\ creates_event(item) -> "error"
    [] OTHER -> None

\* EnvelopeSummary::empty
EmptySummary ==
  [event_category |-> None, attachment_quantity |-> 0, session_quantity |-> 0,
   has_plain_attachments |-> FALSE]

\* Mutant of infer_category: every item that creates an event sets the
\* category.
infer_category_last(summary, item) ==
  IF infer_event_category(item) # None
  THEN [summary EXCEPT !.event_category = infer_event_category(item)]
  ELSE summary

\* EnvelopeSummary::infer_category
infer_category(summary, item) ==
  IF summary.event_category \in {None, "default"} /\ infer_event_category(item) # None
  THEN [summary EXCEPT !.event_category = infer_event_category(item)]
  ELSE summary

\* Mutant of summarize_item: items already rate limited are counted again.
summarize_item_recount(summary, item) ==
  LET s1 == IF creates_event(item) THEN infer_category(summary, item)
            ELSE IF item.ty = "attachment"
                 THEN [summary EXCEPT !.has_plain_attachments = TRUE]
                 ELSE summary
  IN IF item.ty = "attachment"
     THEN [s1 EXCEPT !.attachment_quantity = @ + Max(item.len, 1)]
     ELSE IF item.ty = "session"
          THEN [s1 EXCEPT !.session_quantity = @ + 1]
          ELSE s1

\* One pass of the loop of EnvelopeSummary::compute over an item.
summarize_item(summary, item) ==
  LET s1 == IF creates_event(item) THEN infer_category(summary, item)
            ELSE IF item.ty = "attachment"
                 THEN [summary EXCEPT !.has_plain_attachments = TRUE]
                 ELSE summary
  IN IF item.rate_limited THEN s1
     ELSE IF item.ty = "attachment"
          THEN [s1 EXCEPT !.attachment_quantity = @ + Max(item.len, 1)]
          ELSE IF item.ty = "session"
               THEN [s1 EXCEPT !.session_quantity = @ + 1]
               ELSE s1

RECURSIVE compute_from(_, _)
compute_from(items, summary) ==
  IF items = <<>> THEN summary
  ELSE compute_from(Tail(items), summarize_item(summary, Head(items)))

\* EnvelopeSummary::compute
compute(items) == compute_from(items, EmptySummary)

\* EnvelopeLimiter::new followed by the override of enforce (lines 246-249).
NewRun(summary) ==
  [result |-> "ok", calls |-> <<>>, rate_limits |-> {},
   event_limit |-> None, attachment_limit |-> None, session_limit |-> None,
   summary |-> summary]

\* The active limit of the RateLimits a check returned: the limit the check
\* reports for the category, named after that category.
ActiveLimit(answer, category) == IF answer = "limit" THEN category ELSE None

\* execute, first block: the event check.
execute_event(run, check) ==
  IF run.summary.event_category = None THEN run
  ELSE LET category == run.summary.event_category
           called == [run EXCEPT !.calls = Append(@, [category |-> category, quantity |-> 1])]
       IN IF check[category] = "err" THEN [called EXCEPT !.result = "err"]
          ELSE [called EXCEPT
                  !.event_limit = ActiveLimit(check[category], category),
                  !.rate_limits = @ \cup ({ActiveLimit(check[category], category)} \ {None})]

\* Mutant of execute_attachment: the attachment check is made although the
\* event limit is active.
execute_attachment_always(run, check) ==
  IF run.result = "err" THEN run
  ELSE IF run.summary.attachment_quantity > 0
  THEN LET called == [run EXCEPT !.calls = Append(@,
                        [category |-> "attachment",
                         quantity |-> run.summary.attachment_quantity])]
       IN IF check["attachment"] = "err" THEN [called EXCEPT !.result = "err"]
          ELSE [called EXCEPT
                  !.attachment_limit = ActiveLimit(check["attachment"], "attachment")]
  ELSE run

\* Mutant of execute_attachment: the attachment limits are merged into the
\* returned rate limits whatever the attachments are.
execute_attachment_merge(run, check) ==
  IF run.result = "err" THEN run
  ELSE IF run.event_limit = None /\ run.summary.attachment_quantity > 0
  THEN LET called == [run EXCEPT !.calls = Append(@,
                        [category |-> "attachment",
                         quantity |-> run.summary.attachment_quantity])]
       IN IF check["attachment"] = "err" THEN [called EXCEPT !.result = "err"]
          ELSE [called EXCEPT
                  !.attachment_limit = ActiveLimit(check["attachment"], "attachment"),
                  !.rate_limits =
                     @ \cup ({ActiveLimit(check["attachment"], "attachment")} \ {None})]
  ELSE run

\* execute, second block: the attachment check.
execute_attachment(run, check) ==
  IF run.result = "err" THEN run
  ELSE IF run.event_limit = None /\ run.summary.attachment_quantity > 0
  THEN LET called == [run EXCEPT !.calls = Append(@,
                        [category |-> "attachment",
                         quantity |-> run.summary.attachment_quantity])]
       IN IF check["attachment"] = "err" THEN [called EXCEPT !.result = "err"]
          ELSE [called EXCEPT
                  !.attachment_limit = ActiveLimit(check["attachment"], "attachment"),
                  !.rate_limits =
                     IF run.summary.has_plain_attachments
                     THEN @ \cup ({ActiveLimit(check["attachment"], "attachment")} \ {None})
                     ELSE @]
  ELSE run

\* execute, third block: the session check.
execute_session(run, check) ==
  IF run.result = "err" THEN run
  ELSE IF run.summary.session_quantity > 0
  THEN LET called == [run EXCEPT !.calls = Append(@,
                        [category |-> "session",
                         quantity |-> run.summary.session_quantity])]
       IN IF check["session"] = "err" THEN [called EXCEPT !.result = "err"]
          ELSE [called EXCEPT
                  !.session_limit = ActiveLimit(check["session"], "session"),
                  !.rate_limits = @ \cup ({ActiveLimit(check["session"], "session")} \ {None})]
  ELSE run

\* EnvelopeLimiter::execute
execute(summary, check) ==
  execute_session(execute_attachment(execute_event(NewRun(summary), check), check), check)

\* The second and third block of retain_item (attachments, sessions).
retain_other(run, item) ==
  IF run.attachment_limit # None /\ item.ty = "attachment"
  THEN IF creates_event(item)
       THEN [applied_limit |-> IF item.rate_limited THEN None ELSE run.attachment_limit,
             retain_in_envelope |-> TRUE,
             item |-> [item EXCEPT !.rate_limited = TRUE]]
       ELSE [applied_limit |-> run.attachment_limit, retain_in_envelope |-> FALSE,
             item |-> item]
  ELSE IF run.session_limit # None /\ item.ty = "session"
  THEN [applied_limit |-> run.session_limit, retain_in_envelope |-> FALSE, item |-> item]
  ELSE [applied_limit |-> None, retain_in_envelope |-> TRUE, item |-> item]

\* Mutant of retain_item: an event limit removes the items that create an
\* event instead of those that require one.
retain_item_creates(run, item) ==
  IF run.event_limit # None /\ creates_event(item)
  THEN [applied_limit |-> run.event_limit, retain_in_envelope |-> FALSE, item |-> item]
  ELSE retain_other(run, item)

\* Mutant of retain_item: an event-creating attachment is kept under an
\* attachment limit without being flagged.
retain_item_noflag(run, item) ==
  IF run.event_limit # None /\ requires_event(item)
  THEN [applied_limit |-> run.event_limit, retain_in_envelope |-> FALSE, item |-> item]
  ELSE IF run.attachment_limit # None /\ item.ty = "attachment" /\ creates_event(item)
  THEN [applied_limit |-> IF item.rate_limited THEN None ELSE run.attachment_limit,
        retain_in_envelope |-> TRUE, item |-> item]
  ELSE retain_other(run, item)

\* Mutant of retain_item: a session limit also removes aggregated sessions.
retain_item_sessions(run, item) ==
  IF run.event_limit # None /\ requires_event(item)
  THEN [applied_limit |-> run.event_limit, retain_in_envelope |-> FALSE, item |-> item]
  ELSE IF run.session_limit # None /\ item.ty = "sessions"
  THEN [applied_limit |-> run.session_limit, retain_in_envelope |-> FALSE, item |-> item]
  ELSE retain_other(run, item)

\* EnvelopeLimiter::retain_item: the retention, and the item as it is left.
retain_item(run, item) ==
  IF run.event_limit # None /\ requires_event(item)
  THEN [applied_limit |-> run.event_limit, retain_in_envelope |-> FALSE, item |-> item]
  ELSE IF run.attachment_limit # None /\ item.ty = "attachment"
  THEN IF creates_event(item)
       THEN [applied_limit |-> IF item.rate_limited THEN None ELSE run.attachment_limit,
             retain_in_envelope |-> TRUE,
             item |-> [item EXCEPT !.rate_limited = TRUE]]
       ELSE [applied_limit |-> run.attachment_limit, retain_in_envelope |-> FALSE,
             item |-> item]
  ELSE IF run.session_limit # None /\ item.ty = "session"
  THEN [applied_limit |-> run.session_limit, retain_in_envelope |-> FALSE, item |-> item]
  ELSE [applied_limit |-> None, retain_in_envelope |-> TRUE, item |-> item]

\* EnvelopeLimiter::apply_retention: the items kept, and the records pushed.
RECURSIVE apply_retention(_, _)
apply_retention(run, items) ==
  IF items = <<>> THEN [items |-> <<>>, limited_items |-> <<>>]
  ELSE LET retention == retain_item(run, Head(items))
           rest == apply_retention(run, Tail(items))
           record == IF retention.applied_limit # None
                        /\ infer_event_category(Head(items)) # None
                     THEN <<[item |-> Head(items).id,
                             applied_limit |-> retention.applied_limit,
                             item_category |-> infer_event_category(Head(items))]>>
                     ELSE <<>>
       IN [items |-> (IF retention.retain_in_envelope THEN <<retention.item>> ELSE <<>>)
                       \o rest.items,
           limited_items |-> record \o rest.limited_items]

\* The check callback of one run: its answers for the three categories
\* enforce can ask about; no other category is asked.
CheckOf(summary, aEvent, aAttachment, aSession) ==
  [c \in DataCategory |->
     IF c = summary.event_category THEN aEvent
     ELSE IF c = "attachment" THEN aAttachment
     ELSE IF c = "session" THEN aSession
     ELSE "pass"]

\* Mutant of enforce_summary: the assumed category is used only when the
\* items carry no event.
enforce_summary_inferred(items, event_category) ==
  IF event_category # None /\ compute(items).event_category = None
  THEN [compute(items) EXCEPT !.event_category = event_category]
  ELSE compute(items)

\* The summary enforce works with (lines 246-249).
enforce_summary(items, event_category) ==
  IF event_category # None
  THEN [compute(items) EXCEPT !.event_category = event_category]
  ELSE compute(items)

NoRun ==
  [result |-> None, calls |-> <<>>, rate_limits |-> {},
   event_limit |-> None, attachment_limit |-> None, session_limit |-> None,
   summary |-> EmptySummary, pre |-> <<>>, limited_items |-> <<>>]

LimInit ==
  /\ envelope = <<>>
  /\ assumed = None
  /\ checkAns = [c \in DataCategory |-> "unset"]
  /\ passes = 0
  /\ last = NoRun
  /\ trail = <<>>

\* Envelope::add_item, by the ingestion layer, before the envelope is limited.
AddItem ==
  /\ passes = 0
  /\ Len(envelope) < MaxItems
  /\ \E g \in GenItems :
       envelope' = Append(envelope,
          [id |-> Len(envelope) + 1, ty |-> g.ty, attachment_type |-> g.attachment_type,
           len |-> g.len, rate_limited |-> g.rate_limited])
  /\ UNCHANGED <<assumed, checkAns, passes, last, trail>>
  /\ UNCHANGED <<keysVars, scrubVars, projVars, pureVars>>

\* EnvelopeLimiter::assume_event
assume_event ==
  /\ passes = 0
  /\ assumed = None
  /\ \E category \in {"error", "transaction"} : assumed' = category
  /\ UNCHANGED <<envelope, checkAns, passes, last, trail>>
  /\ UNCHANGED <<keysVars, scrubVars, projVars, pureVars>>

\* Mutant of enforce_run: the retention is applied although a check returned
\* an error.
enforce_run_partial(items, event_category, aEvent, aAttachment, aSession) ==
  LET summary == enforce_summary(items, event_category)
      check == CheckOf(summary, aEvent, aAttachment, aSession)
      run == execute(summary, check)
      kept == apply_retention(run, items)
  IN [run |-> [run EXCEPT !.rate_limits = IF run.result = "ok" THEN @ ELSE {}]
                 @@ [pre |-> items, limited_items |-> kept.limited_items],
      check |-> check,
      called |-> {run.calls[i].category : i \in DOMAIN run.calls},
      items |-> kept.items]

\* EnvelopeLimiter::enforce on the given items: the run of the limiter (its
\* calls, its limits, the returned rate limits and limited items) and the
\* items left in the envelope. An error of the check returns before
\* apply_retention.
enforce_run(items, event_category, aEvent, aAttachment, aSession) ==
  LET summary == enforce_summary(items, event_category)
      check == CheckOf(summary, aEvent, aAttachment, aSession)
      run == execute(summary, check)
      kept == IF run.result = "ok" THEN apply_retention(run, items)
              ELSE [items |-> items, limited_items |-> <<>>]
  IN [run |-> [run EXCEPT !.rate_limits = IF run.result = "ok" THEN @ ELSE {}]
                 @@ [pre |-> items, limited_items |-> kept.limited_items],
      check |-> check,
      called |-> {run.calls[i].category : i \in DOMAIN run.calls},
      items |-> kept.items]

\* EnvelopeLimiter::enforce, with a check callback that answers a category as
\* it answered it before.
enforce ==
  /\ passes < MaxPasses
  /\ \E aEvent, aAttachment, aSession \in Answers :
       \E r \in {enforce_run(envelope, assumed, aEvent, aAttachment, aSession)} :
          /\ \A c \in DataCategory :
               IF c \in r.called THEN checkAns[c] \in {"unset", r.check[c]}
               ELSE r.check[c] = "pass"
          /\ checkAns' = [c \in DataCategory |->
                            IF c \in r.called THEN r.check[c] ELSE checkAns[c]]
          /\ envelope' = r.items
          /\ last' = r.run
          /\ trail' = (IF passes = 0 THEN <<envelope>> ELSE trail) \o <<r.items>>
  /\ passes' = passes + 1
  /\ UNCHANGED assumed
  /\ UNCHANGED <<keysVars, scrubVars, projVars, pureVars>>

LimNext == AddItem \/ assume_event \/ enforce

(***************************************************************************)
(* Relay-info cache                                                        *)
(***************************************************************************)

\* Bounds of the cache model: receivers handed out, receivers dropped,
\* upstream queries sent, clock ticks, and the two validity periods in clock
\* ticks.
MaxCallers == 3

MaxCancels == 1

MaxFetches == 2

MaxTime == 2

relay_cache_expiry == 2

cache_miss_expiry == 1

RelayIds == {"r1", "r2"}

\* The relay infos the upstream can report for an id.
RelayInfos == {"k1", "k2"}

NoChannels == [id \in RelayIds |-> 0]

\* The ids the channel map holds a channel for.
Keys(channels) == {id \in RelayIds : channels[id] # 0}

Vacant == [state |-> "vacant", relay_info |-> None, checked_at |-> 0]

\* Mutant of is_valid_cache: an entry is still valid when exactly its
\* validity period has elapsed.
is_valid_cache_inclusive(entry) ==
  CASE entry.state = "exists" -> now - entry.checked_at <= relay_cache_expiry
    [] entry.state = "does_not_exist" -> now - entry.checked_at <= cache_miss_expiry
    [] OTHER -> FALSE

\* RelayInfoState::is_valid_cache
is_valid_cache(entry) ==
  CASE entry.state = "exists" -> now - entry.checked_at < relay_cache_expiry
    [] entry.state = "does_not_exist" -> now - entry.checked_at < cache_miss_expiry
    [] OTHER -> FALSE

\* RelayInfoState::as_option
as_option(entry) == IF entry.state = "exists" THEN entry.relay_info ELSE None

\* RelayInfoState::from_option
from_option(option) ==
  IF option # None
  THEN [state |-> "exists", relay_info |-> option, checked_at |-> now]
  ELSE [state |-> "does_not_exist", relay_info |-> None, checked_at |-> now]

\* The fields of the actor and the responses it has handed out.
Cache ==
  [relays |-> relays, relay_info_channels |-> relay_info_channels, backoff |-> backoff,
   timers |-> timers, callers |-> callers, next_channel |-> next_channel]

\* RelayInfoChannel::send: every receiver of the channel gets the value.
send(receivers, channel, value) ==
  [i \in DOMAIN receivers |->
     IF receivers[i].channel = channel /\ receivers[i].state = "pending"
     THEN [receivers[i] EXCEPT !.state = "ready", !.value = value]
     ELSE receivers[i]]

\* Dropping channels unsent: their receivers are cancelled, which
\* get_or_fetch_info maps to KeyError::FetchFailed.
drop(receivers, channels) ==
  [i \in DOMAIN receivers |->
     IF receivers[i].channel \in channels /\ receivers[i].state = "pending"
     THEN [receivers[i] EXCEPT !.state = "failed"]
     ELSE receivers[i]]

\* Response::ok
reply(c, relay_id, value) ==
  [c EXCEPT !.callers = Append(@,
     [id |-> relay_id, channel |-> 0, epoch |-> epoch[relay_id], joined |-> {},
      state |-> "ready", value |-> value])]

\* RelayInfoCache::schedule_fetch: next_backoff advances the attempt counter,
\* run_later sets a timer for fetch_keys.
schedule_fetch(c) == [c EXCEPT !.backoff = @ + 1, !.timers = @ + 1]

\* Mutant of start_cycle: a fetch is scheduled whether or not one is pending.
start_cycle_always(c) == schedule_fetch(c)

\* get_or_fetch_info, lines 213-216: a fetch is scheduled unless the backoff
\* has started.
start_cycle(c) ==
  IF ~(c.backoff > 0) THEN schedule_fetch([c EXCEPT !.backoff = 0]) ELSE c

\* The receiver is pending on the channel from now on.
receiver(c, relay_id, channel) ==
  [id |-> relay_id, channel |-> channel, epoch |-> epoch[relay_id],
   joined |-> {i \in DOMAIN c.callers :
                 c.callers[i].id = relay_id /\ c.callers[i].state = "pending"},
   state |-> "pending", value |-> None]

\* Mutant of channel_entry: a new channel replaces the one of the id.
channel_entry_insert(c, relay_id) ==
  [c EXCEPT !.relay_info_channels[relay_id] = c.next_channel,
            !.next_channel = @ + 1,
            !.callers = Append(drop(@, {c.relay_info_channels[relay_id]} \ {0}),
                               receiver(c, relay_id, c.next_channel))]

\* get_or_fetch_info, lines 218-226: a receiver of the channel of the id,
\* which is created unless there is one.
channel_entry(c, relay_id) ==
  IF c.relay_info_channels[relay_id] = 0
  THEN [c EXCEPT !.relay_info_channels[relay_id] = c.next_channel,
                 !.next_channel = @ + 1,
                 !.callers = Append(@, receiver(c, relay_id, c.next_channel))]
  ELSE [c EXCEPT !.callers =
                   Append(@, receiver(c, relay_id, c.relay_info_channels[relay_id]))]

\* RelayInfoCache::get_or_fetch_info
get_or_fetch_info(c, relay_id) ==
  IF c.relays[relay_id].state # "vacant" /\ is_valid_cache(c.relays[relay_id])
  THEN reply(c, relay_id, as_option(c.relays[relay_id]))
  ELSE IF ~has_credentials
  THEN reply(c, relay_id, None)
  ELSE channel_entry(start_cycle(c), relay_id)

RECURSIVE get_all(_, _)
\* The loop of Handler<GetRelaysInfo>::handle.
get_all(c, relay_ids) ==
  IF relay_ids = <<>> THEN c
  ELSE get_all(get_or_fetch_info(c, Head(relay_ids)), Tail(relay_ids))

\* The actor's fields and the responses become those of c.
Become(c) ==
  /\ relays' = c.relays
  /\ relay_info_channels' = c.relay_info_channels
  /\ backoff' = c.backoff
  /\ timers' = c.timers
  /\ callers' = c.callers
  /\ next_channel' = c.next_channel

KeysInit ==
  /\ has_credentials \in BOOLEAN
  /\ relays = [id \in RelayIds |-> Vacant]
  /\ relay_info_channels = NoChannels
  /\ backoff = 0
  /\ timers = 0
  /\ requests = {}
  /\ callers = <<>>
  /\ next_channel = 1
  /\ now = 0
  /\ sent = <<>>
  /\ epoch = [id \in RelayIds |-> 0]
  /\ cancelled = {}

\* The cache without credentials and without messages.
KeysParked == KeysInit /\ ~has_credentials

\* Handler<GetRelayInfo>::handle
GetRelayInfo ==
  /\ Len(callers) < MaxCallers
  /\ \E relay_id \in RelayIds : Become(get_or_fetch_info(Cache, relay_id))
  /\ UNCHANGED <<has_credentials, requests, now, sent, epoch>>
  /\ UNCHANGED cancelled
  /\ UNCHANGED <<limVars, scrubVars, projVars, pureVars>>

\* Handler<GetRelaysInfo>::handle
GetRelaysInfo ==
  /\ Len(callers) + 2 <= MaxCallers
  /\ \E first, second \in RelayIds : Become(get_all(Cache, <<first, second>>))
  /\ UNCHANGED <<has_credentials, requests, now, sent, epoch>>
  /\ UNCHANGED cancelled
  /\ UNCHANGED <<limVars, scrubVars, projVars, pureVars>>

\* Mutant of drain: the query carries one id, the other channels stay queued.
drain_one(channels) ==
  LET id == CHOOSE id \in Keys(channels) : TRUE
  IN [taken |-> [NoChannels EXCEPT ![id] = channels[id]],
      left |-> [channels EXCEPT ![id] = 0]]

\* fetch_keys, line 145: mem::replace takes the whole map and leaves an
\* empty one.
drain(channels) == [taken |-> channels, left |-> NoChannels]

\* RelayInfoCache::fetch_keys, up to the send of the upstream query.
fetch_keys ==
  /\ timers > 0
  /\ Len(sent) < MaxFetches
  /\ \E d \in {drain(relay_info_channels)} :
       /\ relay_info_channels' = d.left
       /\ requests' = requests \cup {[n |-> Len(sent) + 1, channels |-> d.taken]}
       /\ sent' = Append(sent, Keys(d.taken))
       /\ epoch' = [id \in RelayIds |-> IF id \in Keys(d.taken) THEN epoch[id] + 1
                                         ELSE epoch[id]]
  /\ timers' = timers - 1
  /\ UNCHANGED <<has_credentials, relays, backoff, callers, next_channel, now>>
  /\ UNCHANGED cancelled
  /\ UNCHANGED <<limVars, scrubVars, projVars, pureVars>>

\* The end of the closure of fetch_keys (lines 183-185).
reschedule(c) ==
  IF Keys(c.relay_info_channels) # {} THEN schedule_fetch(c) ELSE c

RECURSIVE update_relays_known(_, _, _, _)
\* Mutant of update_relays: the entry of an id the response does not know is
\* left as it is.
update_relays_known(c, channels, response, ids) ==
  IF ids = {} THEN c
  ELSE LET id == CHOOSE id \in ids : TRUE
       IN update_relays_known(
            [c EXCEPT !.relays[id] = IF response[id] # None THEN from_option(response[id])
                                     ELSE @,
                      !.callers = send(@, channels[id], response[id])],
            channels, response, ids \ {id})

RECURSIVE update_relays(_, _, _, _)
\* The loop of the Ok arm of fetch_keys (lines 166-172) over the ids.
update_relays(c, channels, response, ids) ==
  IF ids = {} THEN c
  ELSE LET id == CHOOSE id \in ids : TRUE
       IN update_relays(
            [c EXCEPT !.relays[id] = from_option(response[id]),
                      !.callers = send(@, channels[id], response[id])],
            channels, response, ids \ {id})

\* fetch_keys, the Ok arm and the end of the closure.
response_ok(c, channels, response) ==
  reschedule(update_relays([c EXCEPT !.backoff = 0], channels, response, Keys(channels)))

\* Mutant of response_err: the backoff is reset before the retry is
\* scheduled.
response_err_reset(c, channels) ==
  reschedule(
    [c EXCEPT !.backoff = 0,
              !.relay_info_channels =
                 [id \in RelayIds |-> IF channels[id] # 0 THEN channels[id] ELSE @[id]],
              !.callers =
                 drop(@, {c.relay_info_channels[id] : id \in Keys(channels)} \ {0})])

\* fetch_keys, the Err arm and the end of the closure: extend replaces the
\* channel of an id that was pushed in the meanwhile, which drops it.
response_err(c, channels) ==
  reschedule(
    [c EXCEPT !.relay_info_channels =
                 [id \in RelayIds |-> IF channels[id] # 0 THEN channels[id] ELSE @[id]],
              !.callers =
                 drop(@, {c.relay_info_channels[id] : id \in Keys(channels)} \ {0})])

\* The upstream answers a query with relay infos; an id it does not know is
\* missing from the answer or null.
UpstreamOk ==
  /\ \E request \in requests :
       /\ \E response \in [RelayIds -> RelayInfos \cup {None}] :
            /\ \A id \in RelayIds \ Keys(request.channels) : response[id] = None
            /\ Become(response_ok(Cache, request.channels, response))
       /\ requests' = requests \ {request}
  /\ UNCHANGED <<has_credentials, now, sent, epoch>>
  /\ UNCHANGED cancelled
  /\ UNCHANGED <<limVars, scrubVars, projVars, pureVars>>

\* The upstream query fails.
UpstreamErr ==
  /\ \E request \in requests :
       /\ Become(response_err(Cache, request.channels))
       /\ requests' = requests \ {request}
       /\ epoch' = [id \in RelayIds |->
                      IF id \in Keys(request.channels) THEN epoch[id] + 1 ELSE epoch[id]]
  /\ UNCHANGED <<has_credentials, now, sent>>
  /\ UNCHANGED cancelled
  /\ UNCHANGED <<limVars, scrubVars, projVars, pureVars>>

\* The send to the upstream actor fails with a MailboxError: the closure is
\* not run and the channels it owns are dropped.
MailboxErr ==
  /\ \E request \in requests :
       /\ callers' = drop(callers, {request.channels[id] : id \in Keys(request.channels)})
       /\ requests' = requests \ {request}
  /\ UNCHANGED <<has_credentials, relays, relay_info_channels, backoff, timers,
                 next_channel, now, sent, epoch>>
  /\ UNCHANGED cancelled
  /\ UNCHANGED <<limVars, scrubVars, projVars, pureVars>>

\* Mutant of drop_receiver: the channel leaves the map with its last receiver.
drop_receiver_last(channels, gone, i) ==
  IF \A j \in DOMAIN callers : callers[j].channel = callers[i].channel => j \in gone
  THEN [id \in RelayIds |-> IF channels[id] = callers[i].channel THEN 0 ELSE channels[id]]
  ELSE channels

\* The channel map after caller i dropped its receiver, when the callers in
\* gone have dropped theirs: the receiver is a clone of the Shared receiver,
\* of which the RelayInfoChannel keeps one itself, and the map is not
\* touched.
drop_receiver(channels, gone, i) == channels

\* A caller drops the response future it was handed before it resolves.
Cancel ==
  /\ Cardinality(cancelled) < MaxCancels
  /\ \E i \in {j \in DOMAIN callers : callers[j].state = "pending"} \ cancelled :
       /\ cancelled' = cancelled \cup {i}
       /\ relay_info_channels' =
            drop_receiver(relay_info_channels, cancelled \cup {i}, i)
  /\ UNCHANGED <<has_credentials, relays, backoff, timers, requests, callers,
                 next_channel, now, sent, epoch>>
  /\ UNCHANGED <<limVars, scrubVars, projVars, pureVars>>

\* Time passes.
Elapse ==
  /\ now < MaxTime
  /\ now' = now + 1
  /\ UNCHANGED <<has_credentials, relays, relay_info_channels, backoff, timers, requests,
                 callers, next_channel, sent, epoch>>
  /\ UNCHANGED cancelled
  /\ UNCHANGED <<limVars, scrubVars, projVars, pureVars>>

\* The clock reading up to which the ageing of an entry is followed: one tick
\* past twice the validity period of a known relay.
MaxAge == 2 * relay_cache_expiry + 1

\* Time passes while the entries of the cache age.
Age ==
  /\ now < MaxAge
  /\ now' = now + 1
  /\ UNCHANGED <<has_credentials, relays, relay_info_channels, backoff, timers, requests,
                 callers, next_channel, sent, epoch>>
  /\ UNCHANGED cancelled
  /\ UNCHANGED <<limVars, scrubVars, projVars, pureVars>>

KeysNext ==
  \/ GetRelayInfo
  \/ GetRelaysInfo
  \/ fetch_keys
  \/ UpstreamOk
  \/ UpstreamErr
  \/ MailboxErr
  \/ Elapse

\* The cache with callers that may drop their response future, while the
\* clock stands still.
KeysCancelNext ==
  \/ GetRelayInfo
  \/ GetRelaysInfo
  \/ fetch_keys
  \/ UpstreamOk
  \/ UpstreamErr
  \/ MailboxErr
  \/ Cancel

\* The cache while its entries age past twice their validity period.
KeysAgeNext ==
  \/ GetRelayInfo
  \/ GetRelaysInfo
  \/ fetch_keys
  \/ UpstreamOk
  \/ UpstreamErr
  \/ MailboxErr
  \/ Age

(***************************************************************************)
(* Attachment scrubber                                                     *)
(***************************************************************************)

\* Bound of the scrubber model: the length of the buffer in 16-bit units.
MaxUnits == 3

\* The 16-bit units buffers are made of: '1', 'a', U+3131 (whose bytes are
\* "11"), a leading and a trailing surrogate.
BufferUnits == {49, 97, 12593, 55296, 56320}

\* apply_redaction: const PADDING: char = 'x'
PADDING == 120

\* apply_redaction: const MASK: char = '*'
MASK == 42

\* data[start..end], with offsets counted from 0.
Slice(s, start, end) == SubSeq(s, start + 1, end)

Repeat(x, n) == [i \in 1..n |-> x]

RECURSIVE Flatten(_)
Flatten(ss) == IF ss = <<>> THEN <<>> ELSE Head(ss) \o Flatten(Tail(ss))

RECURSIVE Sum(_)
Sum(s) == IF s = <<>> THEN 0 ELSE Head(s) + Sum(Tail(s))

\* char::encode_utf8
encode_utf8(c) ==
  IF c < 128 THEN <<c>>
  ELSE IF c < 2048 THEN <<192 + (c \div 64), 128 + (c % 64)>>
  ELSE IF c < 65536 THEN <<224 + (c \div 4096), 128 + ((c \div 64) % 64), 128 + (c % 64)>>
  ELSE <<240 + (c \div 262144), 128 + ((c \div 4096) % 64), 128 + ((c \div 64) % 64),
         128 + (c % 64)>>

\* char::encode_utf16
encode_utf16(c) ==
  IF c < 65536 THEN <<c>>
  ELSE <<55296 + ((c - 65536) \div 1024), 56320 + ((c - 65536) % 1024)>>

\* u16::to_le_bytes
to_le_bytes(code) == <<code % 256, code \div 256>>

\* str::as_bytes and str::len of a string given as its chars.
as_bytes(text) == Flatten([i \in DOMAIN text |-> encode_utf8(text[i])])

\* str::encode_utf16
utf16_units(text) == Flatten([i \in DOMAIN text |-> encode_utf16(text[i])])

is_lead_surrogate(code) == code >= 55296 /\ code <= 56319

is_trail_surrogate(code) == code >= 56320 /\ code <= 57343

\* The test `0xD800 & code == 0xD800` of swap_content.
has_d800_bits(code) ==
  /\ (code \div 32768) % 2 = 1
  /\ (code \div 16384) % 2 = 1
  /\ (code \div 4096) % 2 = 1
  /\ (code \div 2048) % 2 = 1

\* hash_value: 40 upper-case hexadecimal digits that depend on the bytes.
hash_value(bytes) ==
  [k \in 1..40 |->
     LET digit == (Sum(bytes) + 7 * k) % 16
     IN IF digit < 10 THEN 48 + digit ELSE 55 + digit]

\* <[u8] as StringMods>::fill_content
fill_content_bytes(self, fill_char) == Repeat(encode_utf8(fill_char)[1], Len(self))

\* Mutant of swap_content_bytes: the replacement is written without cutoff.
swap_content_bytes_nocut(self, replacement, padding) ==
  as_bytes(replacement)
    \o Repeat(encode_utf8(padding)[1], Max(Len(self) - Len(as_bytes(replacement)), 0))

\* <[u8] as StringMods>::swap_content
swap_content_bytes(self, replacement, padding) ==
  LET cutoff == Min(Len(as_bytes(replacement)), Len(self))
  IN Slice(as_bytes(replacement), 0, cutoff)
       \o Repeat(encode_utf8(padding)[1], Len(self) - cutoff)

\* chunks_exact_mut(2) of the bytes, each chunk overwritten with fill_buf;
\* a last odd byte is not part of a chunk.
fill_chunks(bytes, fill_buf) ==
  Flatten(Repeat(fill_buf, Len(bytes) \div 2)) \o Slice(bytes, 2 * (Len(bytes) \div 2), Len(bytes))

\* <WStr as StringMods>::fill_content
fill_content_wstr(self, fill_char) ==
  fill_chunks(self, to_le_bytes(encode_utf16(fill_char)[1]))

RECURSIVE swap_write(_, _, _)
\* The loop of <WStr as StringMods>::swap_content: the bytes written.
swap_write(codes, len, written) ==
  IF codes = <<>> THEN written
  ELSE LET char_len == IF has_d800_bits(Head(codes)) THEN 4 ELSE 2
       IN IF len - Len(written) < char_len THEN written
          ELSE swap_write(Tail(codes), len, written \o to_le_bytes(Head(codes)))

\* <WStr as StringMods>::swap_content
swap_content_wstr(self, replacement, padding) ==
  LET written == swap_write(utf16_units(replacement), Len(self), <<>>)
  IN written \o fill_chunks(Slice(self, Len(written), Len(self)),
                            to_le_bytes(encode_utf16(padding)[1]))

\* StringMods::apply_redaction, for a slice of bytes ("utf8") or a WStr
\* ("utf16le").
apply_redaction(self, redaction, encoding) ==
  CASE redaction.method \in {"default", "remove"} ->
         IF encoding = "utf8" THEN fill_content_bytes(self, PADDING)
         ELSE fill_content_wstr(self, PADDING)
    [] redaction.method = "mask" ->
         IF encoding = "utf8" THEN fill_content_bytes(self, MASK)
         ELSE fill_content_wstr(self, MASK)
    [] redaction.method = "hash" ->
         IF encoding = "utf8" THEN swap_content_bytes(self, hash_value(self), PADDING)
         ELSE swap_content_wstr(self, hash_value(self), PADDING)
    [] redaction.method = "replace" ->
         IF encoding = "utf8" THEN swap_content_bytes(self, redaction.text, PADDING)
         ELSE swap_content_wstr(self, redaction.text, PADDING)

\* The slice data[start..end] is replaced by what the redaction left in it.
redact(data, start, end, redaction, encoding) ==
  Slice(data, 0, start)
    \o apply_redaction(Slice(data, start, end), redaction, encoding)
    \o Slice(data, end, Len(data))

\* get_regex_for_rule_type: the regex of a rule type and its replace
\* behavior. "any" is the regex `.*`, "ones" the regex `11+`.
get_regex_for_rule_type(ty) ==
  CASE ty = "anything" -> <<[pattern |-> "any", behavior |-> "value"]>>
    [] ty = "pattern" -> <<[pattern |-> "ones", behavior |-> "groups"]>>
    [] ty = "redact_pair" -> <<[pattern |-> "ones", behavior |-> "value"]>>

\* Whether the regex consumes the symbol: a byte for the regex built
\* without unicode and with dot_matches_new_line, otherwise a char.
consumes(pattern, unicode, symbol) ==
  IF pattern = "ones" THEN symbol = 49
  ELSE (~unicode) \/ symbol # 10

\* The least number of symbols a non-empty match of the regex has.
min_len(pattern) == IF pattern = "ones" THEN 2 ELSE 1

RECURSIVE match_end(_, _, _, _)
match_end(pattern, unicode, symbols, at) ==
  IF at < Len(symbols) /\ consumes(pattern, unicode, symbols[at + 1])
  THEN match_end(pattern, unicode, symbols, at + 1)
  ELSE at

RECURSIVE find_iter(_, _, _, _)
\* The non-empty matches of the regex, leftmost first, as ranges of symbols.
find_iter(pattern, unicode, symbols, at) ==
  IF at >= Len(symbols) THEN <<>>
  ELSE IF match_end(pattern, unicode, symbols, at) - at >= min_len(pattern)
  THEN <<<<at, match_end(pattern, unicode, symbols, at)>>>>
         \o find_iter(pattern, unicode, symbols, match_end(pattern, unicode, symbols, at))
  ELSE find_iter(pattern, unicode, symbols, Max(match_end(pattern, unicode, symbols, at), at + 1))

\* What a pass over the buffer leaves: the buffer, whether a match was
\* found, the ranges handed to apply_redaction, and whether it panicked.
Pass(data, changed, redacted, panicked) ==
  [data |-> data, changed |-> changed, redacted |-> redacted, panicked |-> panicked]

RECURSIVE redact_matches(_, _, _)
\* The last loop of apply_regex_to_utf8_bytes.
redact_matches(data, matches, redaction) ==
  IF matches = <<>> THEN data
  ELSE redact_matches(
         redact(data, Head(matches)[1], Head(matches)[2], redaction, "utf8"),
         Tail(matches), redaction)

\* The matches apply_regex_to_utf8_bytes collects.
utf8_matches(data, regex) ==
  LET found == find_iter(regex.pattern, FALSE, data, 0)
  IN IF regex.behavior = "groups" THEN found
     ELSE [i \in DOMAIN found |-> <<0, Len(data)>>]

apply_regex_to_utf8_bytes(data, rule, regex) ==
  LET matches == utf8_matches(data, regex)
  IN IF matches = <<>> THEN Pass(data, FALSE, {}, FALSE)
     ELSE Pass(redact_matches(data, matches, rule.redaction), TRUE,
               {matches[i] : i \in DOMAIN matches}, FALSE)

\* UTF16Decoder of the encoding crate: no lead byte, no lead surrogate.
NoUnit == 65535

FreshDecoder == [leadbyte |-> NoUnit, leadsurrogate |-> NoUnit]

\* Little::concat_two_bytes
concat_two_bytes(low, high) == low + 256 * high

pair_char(upper, lower) == 65536 + (upper - 55296) * 1024 + (lower - 56320)

\* What raw_feed returns and leaves: without an error, upto is 0.
Fed(processed, err, upto, decoded, decoder) ==
  [processed |-> processed, err |-> err, upto |-> upto, decoded |-> decoded,
   decoder |-> decoder]

RECURSIVE feed_loop(_, _, _, _)
\* The loop of UTF16Decoder::raw_feed over whole code units; i is the offset
\* of the next unit.
feed_loop(input, i, processed, decoded) ==
  IF i + 1 >= Len(input)
  THEN Fed(processed, FALSE, 0, decoded,
           [FreshDecoder EXCEPT !.leadbyte = IF i + 1 = Len(input) THEN input[i + 1] ELSE @])
  ELSE LET ch == concat_two_bytes(input[i + 1], input[i + 2])
       IN IF is_lead_surrogate(ch)
          THEN IF i + 3 >= Len(input)
               THEN Fed(processed, FALSE, 0, decoded,
                        [leadsurrogate |-> ch,
                         leadbyte |-> IF i + 3 = Len(input) THEN input[i + 3] ELSE NoUnit])
               ELSE LET ch2 == concat_two_bytes(input[i + 3], input[i + 4])
                    IN IF is_trail_surrogate(ch2)
                       THEN feed_loop(input, i + 4, i + 4,
                                      Append(decoded, pair_char(ch, ch2)))
                       ELSE Fed(processed, TRUE, i + 2, decoded, FreshDecoder)
          ELSE IF is_trail_surrogate(ch)
          THEN Fed(processed, TRUE, i + 2, decoded, FreshDecoder)
          ELSE feed_loop(input, i + 2, i + 2, Append(decoded, ch))

\* raw_feed, when the last feed left a lead surrogate and i bytes of the
\* input are consumed.
feed_surrogate(decoder, input, i, processed, decoded) ==
  IF i + 1 >= Len(input)
  THEN Fed(processed, FALSE, 0, decoded, [decoder EXCEPT !.leadbyte = input[i + 1]])
  ELSE LET ch == concat_two_bytes(input[i + 1], input[i + 2])
       IN IF is_trail_surrogate(ch)
          THEN feed_loop(input, i + 2, i + 2,
                         Append(decoded, pair_char(decoder.leadsurrogate, ch)))
          ELSE Fed(processed, TRUE, i, decoded, FreshDecoder)

\* raw_feed, when the last feed left a lead byte.
feed_leadbyte(decoder, input) ==
  LET ch == concat_two_bytes(decoder.leadbyte, input[1])
  IN IF decoder.leadsurrogate # NoUnit
     THEN IF is_trail_surrogate(ch)
          THEN feed_loop(input, 1, 1, <<pair_char(decoder.leadsurrogate, ch)>>)
          ELSE Fed(0, TRUE, -1, <<>>, FreshDecoder)
     ELSE IF is_lead_surrogate(ch)
     THEN IF 1 >= Len(input)
          THEN Fed(0, FALSE, 0, <<>>, [leadbyte |-> NoUnit, leadsurrogate |-> ch])
          ELSE feed_surrogate([leadbyte |-> NoUnit, leadsurrogate |-> ch], input, 1, 0, <<>>)
     ELSE IF is_trail_surrogate(ch)
     THEN Fed(0, TRUE, 1, <<>>, FreshDecoder)
     ELSE feed_loop(input, 1, 1, <<ch>>)

\* RawDecoder::raw_feed of the UTF-16LE decoder: the offset up to which the
\* input is decoded, the error and its extent, the chars decoded, and the
\* decoder as it is left.
raw_feed(decoder, input) ==
  IF input = <<>> THEN Fed(0, FALSE, 0, <<>>, decoder)
  ELSE IF decoder.leadbyte # NoUnit THEN feed_leadbyte(decoder, input)
  ELSE IF decoder.leadsurrogate # NoUnit THEN feed_surrogate(decoder, input, 0, 0, <<>>)
  ELSE feed_loop(input, 0, 0, <<>>)

\* The offset in the UTF-8 text of the char with the given index.
text_offset(all_text, index) == Len(as_bytes(SubSeq(all_text, 1, index)))

\* WStr::is_char_boundary
is_char_boundary(wstr, index) ==
  \/ index = 0
  \/ index = Len(wstr)
  \/ /\ index % 2 = 0
     /\ index < Len(wstr)
     /\ ~is_trail_surrogate(concat_two_bytes(wstr[index + 1], wstr[index + 2]))

RECURSIVE wstr_walk(_, _, _, _, _, _, _)
\* The loop of get_wstr_match over the zipped char_indices: k is the index
\* of the next char of the text, encoded_offset the offset of the next char
\* of the WStr. WStr::char_indices takes a surrogate together with the unit
\* after it; it panics when there is none and, with debug assertions, when
\* the two are not a pair.
wstr_walk(all_text, k, all_encoded, encoded_offset, re_match, found, debug) ==
  IF k > Len(all_text) \/ encoded_offset + 2 > Len(all_encoded) THEN found
  ELSE LET unit == concat_two_bytes(all_encoded[encoded_offset + 1],
                                    all_encoded[encoded_offset + 2])
           surrogate == is_lead_surrogate(unit) \/ is_trail_surrogate(unit)
           paired == /\ is_lead_surrogate(unit)
                     /\ is_trail_surrogate(
                          concat_two_bytes(all_encoded[encoded_offset + 3],
                                           all_encoded[encoded_offset + 4]))
           at == IF text_offset(all_text, k - 1) = re_match[1]
                 THEN [found EXCEPT !.encoded_start = encoded_offset]
                 ELSE found
       IN IF surrogate /\ encoded_offset + 4 > Len(all_encoded)
          THEN [found EXCEPT !.panicked = TRUE]
          ELSE IF surrogate /\ debug /\ ~paired
          THEN [found EXCEPT !.panicked = TRUE]
          ELSE IF text_offset(all_text, k - 1) = re_match[2]
          THEN [at EXCEPT !.encoded_end = encoded_offset]
          ELSE wstr_walk(all_text, k + 1, all_encoded,
                         encoded_offset + (IF surrogate THEN 4 ELSE 2), re_match, at, debug)

\* get_wstr_match: the range of the WStr it returns, or a panic of the
\* walk or of the indexing.
get_wstr_match(all_text, re_match, all_encoded, debug) ==
  LET found == wstr_walk(all_text, 1, all_encoded, 0, re_match,
                         [encoded_start |-> 0, encoded_end |-> 0, panicked |-> FALSE], debug)
  IN IF found.panicked THEN found
     ELSE [found EXCEPT !.panicked =
             ~ /\ found.encoded_start <= found.encoded_end
               /\ is_char_boundary(all_encoded, found.encoded_start)
               /\ is_char_boundary(all_encoded, found.encoded_end)]

RECURSIVE scrub_segment(_, _, _, _, _, _, _)
\* The body of the loop of apply_regex_to_utf16le_bytes for one segment:
\* every match in the decoded text is projected to the raw bytes of the
\* segment as they are by now, and redacted.
scrub_segment(pass, start, end, decoded, matches, redaction, debug) ==
  IF matches = <<>> \/ pass.panicked THEN pass
  ELSE LET re_match == <<text_offset(decoded, Head(matches)[1]),
                         text_offset(decoded, Head(matches)[2])>>
           found == get_wstr_match(decoded, re_match, Slice(pass.data, start, end), debug)
       IN IF found.panicked THEN Pass(pass.data, TRUE, pass.redacted, TRUE)
          ELSE scrub_segment(
                 Pass(redact(pass.data, start + found.encoded_start,
                             start + found.encoded_end, redaction, "utf16le"),
                      TRUE,
                      pass.redacted \cup {<<start + found.encoded_start,
                                            start + found.encoded_end>>},
                      FALSE),
                 start, end, decoded, Tail(matches), redaction, debug)

RECURSIVE utf16_scan(_, _, _, _, _, _)
\* apply_regex_to_utf16le_bytes from the given state of its MutSegmentIter:
\* MutSegmentIter::next, and the redaction of the segment it yields.
utf16_scan(pass, offset, decoder, rule, regex, debug) ==
  IF pass.panicked \/ offset >= Len(pass.data) THEN pass
  ELSE LET fed == raw_feed(decoder, Slice(pass.data, offset, Len(pass.data)))
           end == offset + fed.processed
           next_offset == IF fed.err
                          THEN (IF fed.upto > 0 THEN offset + fed.upto ELSE offset + 2)
                          ELSE offset + fed.processed
           next_decoder == IF fed.err /\ ~(fed.upto > 0) THEN FreshDecoder ELSE fed.decoder
       IN IF Len(as_bytes(fed.decoded)) > 2
          THEN utf16_scan(
                 scrub_segment(pass, offset, end, fed.decoded,
                               find_iter(regex.pattern, TRUE, fed.decoded, 0),
                               rule.redaction, debug),
                 next_offset, next_decoder, rule, regex, debug)
          ELSE IF fed.err
          THEN utf16_scan(pass, next_offset, next_decoder, rule, regex, debug)
          ELSE pass

apply_regex_to_utf16le_bytes(data, rule, regex, debug) ==
  utf16_scan(Pass(data, FALSE, {}, FALSE), 0, FreshDecoder, rule, regex, debug)

\* A selector is a path of items, the negation of a selector or the
\* conjunction of selectors; an item of a path selects a key, a value type,
\* one segment (*) or any run of segments (**).  A path is the sequence of
\* the states entered below the root, each with its key and value type.

\* SelectorPathItem::matches_state
matches_state(item, state) ==
  CASE item.kind = "key" -> state.key = item.name
    [] item.kind = "type" -> state.value_type = item.name
    [] OTHER -> TRUE

RECURSIVE matches_path(_, _)
\* The items of a path selector against the states of the path, from the
\* node upwards: the selector has to be used up, the path need not be.
matches_path(path, items) ==
  IF items = <<>> THEN TRUE
  ELSE LET item == items[Len(items)]
           front == SubSeq(items, 1, Len(items) - 1)
       IN IF item.kind = "deep"
          THEN \E n \in 0..Len(path) : matches_path(SubSeq(path, 1, n), front)
          ELSE /\ path # <<>>
               /\ matches_state(item, path[Len(path)])
               /\ matches_path(SubSeq(path, 1, Len(path) - 1), front)

RECURSIVE matches_selector(_, _)
\* Path::matches_selector
matches_selector(path, selector) ==
  CASE selector.op = "path" -> matches_path(path, selector.items)
    [] selector.op = "not" -> ~matches_selector(path, selector.args[1])
    [] selector.op = "and" ->
         \A i \in DOMAIN selector.args : matches_selector(path, selector.args[i])

\* PiiAttachmentsProcessor::state for a binary attachment: below the root
\* the state of value type attachments, then the file.
AttachmentState ==
  <<[key |-> "", value_type |-> "attachments"],
    [key |-> "foo.txt", value_type |-> "binary"]>>

\* The two passes of scrub_bytes for one regex of a rule.
scrub_regex(pass, rule, regex, debug) ==
  IF pass.panicked THEN pass
  ELSE LET utf8 == apply_regex_to_utf8_bytes(pass.data, rule, regex)
           utf16 == apply_regex_to_utf16le_bytes(utf8.data, rule, regex, debug)
       IN Pass(utf16.data, pass.changed \/ utf8.changed \/ utf16.changed,
               pass.redacted \cup utf8.redacted \cup utf16.redacted, utf16.panicked)

RECURSIVE scrub_regexes(_, _, _, _)
scrub_regexes(pass, rule, regexes, debug) ==
  IF regexes = <<>> THEN pass
  ELSE scrub_regexes(scrub_regex(pass, rule, Head(regexes), debug), rule,
                     Tail(regexes), debug)

RECURSIVE scrub_rules(_, _, _)
\* The loop of scrub_bytes over the rules of an application.
scrub_rules(pass, rules, debug) ==
  IF rules = <<>> THEN pass
  ELSE scrub_rules(
         scrub_regexes(pass, Head(rules), get_regex_for_rule_type(Head(rules).ty), debug),
         Tail(rules), debug)

RECURSIVE scrub_applications_all(_, _, _)
\* Mutant of scrub_applications: the rules of every application are applied,
\* whatever its selector.
scrub_applications_all(pass, applications, debug) ==
  IF applications = <<>> THEN pass
  ELSE scrub_applications_all(scrub_rules(pass, Head(applications).rules, debug),
                              Tail(applications), debug)

RECURSIVE scrub_applications(_, _, _)
scrub_applications(pass, applications, debug) ==
  IF applications = <<>> THEN pass
  ELSE scrub_applications(
         IF matches_selector(AttachmentState, Head(applications).selector)
         THEN scrub_rules(pass, Head(applications).rules, debug)
         ELSE pass,
         Tail(applications), debug)

\* PiiAttachmentsProcessor::scrub_bytes
scrub_bytes(applications, bytes, debug) ==
  scrub_applications(Pass(bytes, FALSE, {}, FALSE), applications, debug)

\* The buffers of the model: at most MaxUnits units in little endian,
\* after no byte or the byte '1', and before no byte or the byte 0xD8.
Buffers ==
  {before \o Flatten([i \in DOMAIN units |-> to_le_bytes(units[i])]) \o after :
     before \in {<<>>, <<49>>},
     units \in UNION {[1..n -> BufferUnits] : n \in 0..MaxUnits},
     after \in {<<>>, <<216>>}}

\* Redaction: remove, mask, hash, and replace with the text "[ip]" or with
\* a text that starts with a char outside the basic multilingual plane.
Redactions ==
  {[method |-> m, text |-> <<>>] : m \in {"remove", "mask", "hash"}}
  \cup {[method |-> "replace", text |-> t] : t \in {<<91, 105, 112, 93>>, <<65536, 114>>}}

Rules == {[ty |-> t, redaction |-> r] :
            t \in {"anything", "pattern", "redact_pair"}, r \in Redactions}

\* The rule @ip:mask.
MaskRule == [ty |-> "pattern", redaction |-> [method |-> "mask", text |-> <<>>]]

\* The rules a second rule of an application is taken from.
SecondRules ==
  {MaskRule,
   [ty |-> "anything", redaction |-> [method |-> "hash", text |-> <<>>]]}

\* The selectors of the applications: $binary, and the selectors that do not
\* select a binary attachment: $string, $number, $attachments,
\* $attachments.* && $string, and ** && !$binary.
Selectors ==
  LET Type(name) == [op |-> "path", items |-> <<[kind |-> "type", name |-> name]>>,
                     args |-> <<>>]
      Wild == [kind |-> "wildcard", name |-> ""]
      Deep == [kind |-> "deep", name |-> ""]
  IN [binary |-> Type("binary"),
      wrong |->
        {Type("string"), Type("number"), Type("attachments"),
         [op |-> "and", items |-> <<>>,
          args |-> <<[op |-> "path",
                      items |-> <<[kind |-> "type", name |-> "attachments"], Wild>>,
                      args |-> <<>>],
                     Type("string")>>],
         [op |-> "and", items |-> <<>>,
          args |-> <<[op |-> "path", items |-> <<Deep>>, args |-> <<>>],
                     [op |-> "not", items |-> <<>>, args |-> <<Type("binary")>>]>>]}]

\* CompiledPiiConfig::applications: one application, whose selector selects
\* binary attachments or does not, or such an application after one whose
\* selector does not select them.
Applications ==
  {<<[selector |-> Selectors.binary, rules |-> <<r>>]>> : r \in Rules}
  \cup {<<[selector |-> Selectors.binary, rules |-> <<r, s>>]>> :
          r \in SecondRules, s \in SecondRules}
  \cup {<<[selector |-> w, rules |-> <<MaskRule>>]>> : w \in Selectors.wrong}
  \cup {<<[selector |-> w,
           rules |-> <<[ty |-> "anything", redaction |-> [method |-> "hash", text |-> <<>>]]>>],
          [selector |-> Selectors.binary, rules |-> <<MaskRule>>]>> : w \in Selectors.wrong}

ScrubInit ==
  /\ compiled_config \in Applications
  /\ original \in Buffers
  /\ attachment = original
  /\ result = None
  /\ ranges = {}

\* No attachment and no rules.
ScrubParked ==
  /\ compiled_config = <<>>
  /\ original = <<>>
  /\ attachment = <<>>
  /\ result = None
  /\ ranges = {}

\* PiiAttachmentsProcessor::scrub_attachment, in a build with or without
\* debug assertions: the buffer as it is left, and the value returned
\* unless the call panicked.
scrub_attachment ==
  /\ result = None
  /\ \E debug \in BOOLEAN :
       \E pass \in {scrub_bytes(compiled_config, attachment, debug)} :
          /\ attachment' = pass.data
          /\ ranges' = pass.redacted
          /\ result' = IF pass.panicked THEN "panic"
                       ELSE IF pass.changed THEN "true" ELSE "false"
  /\ UNCHANGED <<compiled_config, original>>
  /\ UNCHANGED <<limVars, keysVars, projVars, pureVars>>

ScrubNext == scrub_attachment

(***************************************************************************)
(* Project cache                                                           *)
(***************************************************************************)

\* Bounds of the project cache model: clock ticks, and the validity period
\* of a project state in clock ticks.
MaxClock == 3

project_cache_expiry == 1

ProjectIds == {"p1", "p2", "p3"}

\* ProjectUpdate::new
ProjectUpdate(project_id) == [project_id |-> project_id, instant |-> clock]

RECURSIVE evict_any(_, _, _, _)
\* Mutant of evict: the project of the message is removed like any other.
evict_any(cached, queue, id, eviction_threshold) ==
  IF queue = <<>> THEN [projects |-> cached, updates |-> queue]
  ELSE IF Head(queue).instant > eviction_threshold
  THEN [projects |-> cached, updates |-> queue]
  ELSE evict_any(cached \ {Head(queue).project_id}, Tail(queue), id, eviction_threshold)

RECURSIVE evict(_, _, _, _)
\* The loop of Handler<FetchProjectState>::handle (lines 190-200) over the
\* front of the queue.
evict(cached, queue, id, eviction_threshold) ==
  IF queue = <<>> THEN [projects |-> cached, updates |-> queue]
  ELSE IF Head(queue).instant > eviction_threshold
  THEN [projects |-> cached, updates |-> queue]
  ELSE evict(IF Head(queue).project_id # id THEN cached \ {Head(queue).project_id}
             ELSE cached,
             Tail(queue), id, eviction_threshold)

\* Mutant of retain: the update of the project stays in the queue.
retain_all(queue, id) == queue

\* VecDeque::retain, lines 208-209
retain(queue, id) == SelectSeq(queue, LAMBDA update : update.project_id # id)

\* Handler<FetchProjectState>::handle, lines 188-210: the projects and the
\* queue as the handler leaves them.
handle_fetch(cached, queue, id) ==
  LET eviction_threshold == clock - 2 * project_cache_expiry
      swept == evict(cached, queue, id, eviction_threshold)
  IN [projects |-> swept.projects,
      updates |-> Append(retain(swept.updates, id), ProjectUpdate(id))]

ProjInit ==
  /\ projects = {}
  /\ updates = <<>>
  /\ fetching = {}
  /\ started = {}
  /\ clock = 0
  /\ message = None

\* Handler<GetProject>::handle
GetProject ==
  /\ \E id \in ProjectIds :
       IF id \in projects
       THEN UNCHANGED <<projects, started>>
       ELSE /\ projects' = projects \cup {id}
            /\ started' = started \cup {id}
  /\ UNCHANGED <<updates, fetching, clock, message>>
  /\ UNCHANGED <<limVars, keysVars, scrubVars, pureVars>>

\* Handler<FetchProjectState>::handle, sent by the Project actor of the id:
\* the sweep, the new update, and the fetch from the local cache, redis and
\* the upstream, whose response is pending from now on.
FetchProjectState ==
  /\ \E id \in started :
       \E r \in {handle_fetch(projects, updates, id)} :
          /\ projects' = r.projects
          /\ updates' = r.updates
          /\ fetching' = fetching \cup {id}
          /\ message' = id
  /\ UNCHANGED <<started, clock>>
  /\ UNCHANGED <<limVars, keysVars, scrubVars, pureVars>>

\* The future returned by the handler resolves, with a project state or
\* with an error.
ProjectStateResponse ==
  /\ \E id \in fetching : fetching' = fetching \ {id}
  /\ UNCHANGED <<projects, updates, started, clock, message>>
  /\ UNCHANGED <<limVars, keysVars, scrubVars, pureVars>>

\* Time passes.
Tick ==
  /\ clock < MaxClock
  /\ clock' = clock + 1
  /\ UNCHANGED <<projects, updates, fetching, started, message>>
  /\ UNCHANGED <<limVars, keysVars, scrubVars, pureVars>>

ProjNext == GetProject \/ FetchProjectState \/ ProjectStateResponse \/ Tick

\* The project states of the model.
ProjectStates == {"s1", "s2"}

\* What a cache replies to FetchOptionalProjectState: the request fails
\* with a MailboxError, the handler returns Err, or it returns a response
\* with a state or with none.
OptionalReplies ==
  {[kind |-> k, state |-> None] : k \in {"mailbox", "err", "none"}}
  \cup {[kind |-> "state", state |-> s] : s \in ProjectStates}

\* What the upstream cache replies to FetchProjectState: the request fails
\* with a MailboxError, the handler returns Err, or it returns the response
\* with the state it fetched.
UpstreamReplies ==
  {[kind |-> k, state |-> None] : k \in {"mailbox", "err"}}
  \cup {[kind |-> "state", state |-> s] : s \in ProjectStates}

\* ProjectStateResponse::managed
managed(state) == [status |-> "ok", state |-> state, is_local |-> FALSE]

\* ProjectStateResponse::local as managed.
local_managed(state) == [status |-> "ok", state |-> state, is_local |-> FALSE]

\* ProjectStateResponse::local
local(state) == [status |-> "ok", state |-> state, is_local |-> TRUE]

\* The future failed, or has not resolved yet.
Unresolved(status) == [status |-> status, state |-> None, is_local |-> FALSE]

\* The future of the handler after the given lookups: the source queried
\* next, if any, and what the future resolved to, if it did.
Chain(self, source, resolution) ==
  [fetch |-> [self EXCEPT !.pending = source], project_state |-> resolution]

\* The closure of fetch_redis.and_then, lines 246-262.
after_redis(self, replied) ==
  IF replied.kind = "mailbox" THEN Chain(self, None, Unresolved("err"))
  ELSE IF replied.kind = "state" THEN Chain(self, None, local(replied.state))
  ELSE Chain(self, "upstream", Unresolved("pending"))

\* The closure of fetch_local.and_then, lines 223-265: without the redis
\* cache fetch_redis is a future that is ready with no state.
after_local(self, replied) ==
  IF replied.kind = "mailbox" THEN Chain(self, None, Unresolved("err"))
  ELSE IF replied.kind = "state" THEN Chain(self, None, local(replied.state))
  ELSE IF self.processing /\ self.redis_cache
  THEN Chain(self, "redis", Unresolved("pending"))
  ELSE after_redis(self, [kind |-> "none", state |-> None])

\* fetch_upstream, lines 254-257: the response of the upstream cache is
\* handed on as it is; the upstream cache builds it with managed.
after_upstream(self, replied) ==
  IF replied.kind = "state" THEN Chain(self, None, managed(replied.state))
  ELSE Chain(self, None, Unresolved("err"))

(***************************************************************************)
(* Conversion of the data scrubbing configuration                          *)
(***************************************************************************)

\* Bounds of the conversion model: the number of sensitive fields and the
\* number of excluded fields of a configuration.
MaxFields == 2

MaxExcluded == 2

\* regex::escape of a string given as its chars: the meta characters of the
\* regex syntax are preceded by a backslash.
escape(field) ==
  Flatten([i \in DOMAIN field |->
             IF field[i] \in {"\\", ".", "+", "*", "?", "(", ")", "|", "[", "]", "{", "}",
                              "^", "$", "#", "&", "-", "~"}
             THEN <<"\\", field[i]>> ELSE <<field[i]>>])

\* The block sensitive_fields_re of to_pii_config (lines 20-43): the key
\* pattern as its chars, or no chars for None. idx counts from 0 in the code
\* and from 1 here.
sensitive_fields_re(sensitive_fields) ==
  LET RECURSIVE loop(_, _, _)
      loop(idx, re, is_empty) ==
        IF idx > Len(sensitive_fields)
        THEN IF is_empty THEN <<>> ELSE re \o <<")", ".", "*">>
        ELSE IF sensitive_fields[idx] = <<>> THEN loop(idx + 1, re, is_empty)
        ELSE loop(idx + 1,
                  re \o (IF idx > 1 THEN <<"|">> ELSE <<>>) \o escape(sensitive_fields[idx]),
                  FALSE)
  IN loop(1, <<".", "*", "(">>, TRUE)

\* Mutant of exclude_selector: of several excluded fields only the first one
\* is negated.
exclude_selector_first(exclude_fields) ==
  IF exclude_fields = <<>>
  THEN [op |-> "path", items |-> <<[kind |-> "deep", name |-> ""]>>, args |-> <<>>]
  ELSE [op |-> "not", items |-> <<>>,
        args |-> <<[op |-> "path",
                    items |-> <<[kind |-> "key", name |-> exclude_fields[1]]>>,
                    args |-> <<>>]>>]

\* The selector of the application (lines 70-84): ** without excluded
\* fields, else the negated key selector of the one field or the conjunction
\* of the negated key selectors.
exclude_selector(exclude_fields) ==
  LET fields == [i \in DOMAIN exclude_fields |->
                   [op |-> "not", items |-> <<>>,
                    args |-> <<[op |-> "path",
                                items |-> <<[kind |-> "key", name |-> exclude_fields[i]]>>,
                                args |-> <<>>]>>]]
  IN IF exclude_fields = <<>>
     THEN [op |-> "path", items |-> <<[kind |-> "deep", name |-> ""]>>, args |-> <<>>]
     ELSE IF Len(fields) > 1 THEN [op |-> "and", items |-> <<>>, args |-> fields]
     ELSE fields[1]

\* to_pii_config. The rules are the pairs of a rule id and its spec. The
\* regex of the key pattern is built and unwrapped (lines 50-55): a pattern
\* with an empty alternative is compiled or refused, which lets unwrap panic,
\* depending on the regex crate of the build.
to_pii_config(config, empty_alternative) ==
  LET first == IF config.scrub_data /\ config.scrub_defaults THEN <<"@common:filter">>
               ELSE IF config.scrub_ip_addresses THEN <<"@ip:filter">>
               ELSE <<>>
      key_pattern == IF config.scrub_data THEN sensitive_fields_re(config.sensitive_fields)
                     ELSE <<>>
      custom_rules ==
        IF key_pattern = <<>> THEN <<>>
        ELSE <<[id |-> "strip-fields", ty |-> "redact_pair", key_pattern |-> key_pattern,
                case_insensitive |-> TRUE, redaction |-> "replace", text |-> "[filtered]"]>>
      applied_rules == first \o (IF key_pattern = <<>> THEN <<>> ELSE <<"strip-fields">>)
  IN IF key_pattern # <<>> /\ SubSeq(key_pattern, 3, 4) = <<"(", "|">> /\ ~empty_alternative
     THEN [returned |-> "panic", rules |-> <<>>, applications |-> <<>>]
     ELSE IF applied_rules = <<>>
     THEN [returned |-> "None", rules |-> <<>>, applications |-> <<>>]
     ELSE [returned |-> "Some", rules |-> custom_rules,
           applications |-> <<[selector |-> exclude_selector(config.exclude_fields),
                               rules |-> applied_rules]>>]

(***************************************************************************)
(* The rate-limit header                                                   *)
(*                                                                         *)
(* A string is a sequence of characters.  The characters the code looks    *)
(* at are ",", ":", ";" and " "; a run of other characters (a number, a    *)
(* name) is one element of the sequence.                                   *)
(***************************************************************************)

MaxLimits == 2    \* rate limits of a formatted value
MaxRetry == 1     \* largest number of seconds
MaxEntries == 2   \* entries of a received header

\* The scoping of the request (the one of the tests).
Scoping == [organization_id |-> 42, project_id |-> 21, key_id |-> 17]

\* str::split: the pieces of s between the occurrences of the delimiter.
RECURSIVE Split(_, _)
Split(s, delimiter) ==
  IF \A i \in DOMAIN s : s[i] # delimiter THEN <<s>>
  ELSE LET k == CHOOSE i \in DOMAIN s : s[i] = delimiter /\ \A j \in 1..(i - 1) : s[j] # delimiter
       IN <<SubSeq(s, 1, k - 1)>> \o Split(SubSeq(s, k + 1, Len(s)), delimiter)

\* str::trim: s without its leading and trailing whitespace.
RECURSIVE trim(_)
trim(s) ==
  IF s = <<>> THEN s
  ELSE IF Head(s) = " " THEN trim(Tail(s))
  ELSE IF s[Len(s)] = " " THEN trim(SubSeq(s, 1, Len(s) - 1))
  ELSE s

\* format_rate_limits: the entries are separated by ", "; an entry is the
\* remaining seconds, the categories separated by ';', the name of the scope
\* and the reason code if there is one, separated by ':'.
format_rate_limits(limits) ==
  LET categories(cs) ==
        Flatten([index \in DOMAIN cs |->
                   (IF index > 1 THEN <<";">> ELSE <<>>) \o <<cs[index]>>])
      entry(rate_limit) ==
        <<ToString(rate_limit.retry_after), ":">> \o categories(rate_limit.categories)
          \o <<":", rate_limit.scope.name>>
          \o (IF rate_limit.reason_code.some THEN <<":">> \o rate_limit.reason_code.code
              ELSE <<>>)
      RECURSIVE loop(_, _)
      loop(text, rest) ==
        IF rest = <<>> THEN text
        ELSE loop(text \o (IF text # <<>> THEN <<",", " ">> ELSE <<>>) \o entry(Head(rest)),
                  Tail(rest))
  IN loop(<<>>, limits)

\* The parser with the unrecognised categories left out.
parse_categories_known(component) ==
  LET names == SelectSeq(Split(component, ";"), LAMBDA category : category # <<>>)
      known == SelectSeq(names, LAMBDA category :
                           Len(category) = 1 /\ category[1] \in DataCategory)
  IN [i \in DOMAIN known |-> known[i][1]]

\* The categories of an entry: the non-empty pieces between the ';', each
\* through DataCategory::from_name, which answers Unknown to a name it does
\* not know.
parse_categories(component) ==
  LET names == SelectSeq(Split(component, ";"), LAMBDA category : category # <<>>)
  IN [i \in DOMAIN names |->
        IF Len(names[i]) = 1 /\ names[i][1] \in DataCategory THEN names[i][1]
        ELSE "unknown"]

\* RateLimits::add: a limit with the categories and the scope of one that
\* is there replaces it if it lasts longer and is dropped otherwise; any
\* other limit is appended.
add(limits, limit) ==
  LET same(l) == l.categories = limit.categories /\ l.scope = limit.scope
  IN IF \A i \in DOMAIN limits : ~same(limits[i]) THEN Append(limits, limit)
     ELSE LET i == CHOOSE k \in DOMAIN limits :
                     same(limits[k]) /\ \A j \in 1..(k - 1) : ~same(limits[j])
          IN IF limits[i].retry_after < limit.retry_after
             THEN [limits EXCEPT ![i] = limit]
             ELSE limits

\* parse_rate_limits: the header is split at ','; an entry that is empty
\* after trimming, or whose first component is not a number, is passed
\* over; the other entries are added to the result.
parse_rate_limits(scoping, string) ==
  LET seconds(component) ==
        IF \E n \in 0..MaxRetry : component = <<ToString(n)>>
        THEN CHOOSE n \in 0..MaxRetry : component = <<ToString(n)>>
        ELSE -1
      next(components, n) == IF n <= Len(components) THEN components[n] ELSE <<>>
      for_quota(name) ==
        IF name = <<"organization">>
        THEN [name |-> "organization", id |-> scoping.organization_id]
        ELSE IF name = <<"project">> THEN [name |-> "project", id |-> scoping.project_id]
        ELSE [name |-> "key", id |-> scoping.key_id]
      RECURSIVE loop(_, _)
      loop(limits, rest) ==
        IF rest = <<>> THEN limits
        ELSE LET limit == trim(Head(rest))
                 components == Split(limit, ":")
                 retry_after == seconds(components[1])
             IN IF limit = <<>> \/ retry_after < 0 THEN loop(limits, Tail(rest))
                ELSE loop(add(limits,
                              [categories |-> parse_categories(next(components, 2)),
                               scope |-> for_quota(next(components, 3)),
                               reason_code |->
                                 IF Len(components) >= 4
                                 THEN [some |-> TRUE, code |-> components[4]]
                                 ELSE [some |-> FALSE, code |-> <<>>],
                               retry_after |-> retry_after]),
                          Tail(rest))
  IN loop(<<>>, Split(string, ","))

(***************************************************************************)
(* The relay-info response                                                 *)
(***************************************************************************)

\* The conversion with the legacy map taken whenever it has an entry.
from_legacy_first(info) ==
  IF DOMAIN info.public_keys # {}
  THEN [id \in DOMAIN info.public_keys |->
          IF info.public_keys[id] = None
          THEN [some |-> FALSE, public_key |-> None, internal |-> FALSE]
          ELSE [some |-> TRUE, public_key |-> info.public_keys[id], internal |-> FALSE]]
  ELSE info.relays

\* From<PublicKeysResultCompatibility> for GetRelaysInfoResult: the legacy
\* map is taken, each key through RelayInfo::new, if the current map is
\* empty and the legacy map is not.
from(info) ==
  IF DOMAIN info.relays = {} /\ DOMAIN info.public_keys # {}
  THEN [id \in DOMAIN info.public_keys |->
          IF info.public_keys[id] = None
          THEN [some |-> FALSE, public_key |-> None, internal |-> FALSE]
          ELSE [some |-> TRUE, public_key |-> info.public_keys[id], internal |-> FALSE]]
  ELSE info.relays

(***************************************************************************)
(* The builtin rules                                                       *)
(***************************************************************************)

\* The alias declared without hide_inner.
rule_alias_visible(target) ==
  [ty |-> "alias", rule |-> target, hide_inner |-> FALSE, redaction |-> "default"]

\* rule_alias!
rule_alias(target) ==
  [ty |-> "alias", rule |-> target, hide_inner |-> TRUE, redaction |-> "default"]

\* BUILTIN_RULES_MAP, for the rules of ip addresses, mac addresses and
\* credit cards.
BUILTIN_RULES_MAP ==
  LET RuleSpec(ty, redaction) ==
        [ty |-> ty, rule |-> "", hide_inner |-> FALSE, redaction |-> redaction]
  IN [rule_id \in {"@ip", "@ip:replace", "@ip:hash", "@mac", "@mac:replace", "@mac:mask",
                   "@mac:hash", "@creditcard", "@creditcard:mask", "@creditcard:replace",
                   "@creditcard:hash"} |->
        CASE rule_id = "@ip" -> rule_alias("@ip:replace")
          [] rule_id = "@ip:replace" -> RuleSpec("ip", "replace")
          [] rule_id = "@ip:hash" -> RuleSpec("ip", "hash")
          [] rule_id = "@mac" -> rule_alias("@mac:mask")
          [] rule_id = "@mac:replace" -> RuleSpec("mac", "replace")
          [] rule_id = "@mac:mask" -> RuleSpec("mac", "mask")
          [] rule_id = "@mac:hash" -> RuleSpec("mac", "hash")
          [] rule_id = "@creditcard" -> rule_alias("@creditcard:mask")
          [] rule_id = "@creditcard:mask" -> RuleSpec("creditcard", "mask")
          [] rule_id = "@creditcard:replace" -> RuleSpec("creditcard", "replace")
          [] rule_id = "@creditcard:hash" -> RuleSpec("creditcard", "hash")]

\* The rule the processor applies for a rule id of an application: an alias
\* is followed to the rule it names, and an alias declared with hide_inner
\* stays the origin the remarks of the rule are recorded for.
collect_rules(rule_id) ==
  LET spec == BUILTIN_RULES_MAP[rule_id]
      inner == IF spec.ty = "alias" THEN spec.rule ELSE rule_id
  IN [id |-> inner,
      origin |-> IF spec.ty = "alias" /\ ~spec.hide_inner THEN inner ELSE rule_id,
      ty |-> BUILTIN_RULES_MAP[inner].ty,
      redaction |-> BUILTIN_RULES_MAP[inner].redaction]

(***************************************************************************)
(* The segments of a buffer                                                *)
(***************************************************************************)

\* Bound of the model: the number of calls of next on one iterator.
MaxNexts == 6

\* The segment whose raw slice is the rest of the buffer.
MutSegment_rest(data, start, end, decoded) ==
  [start |-> start, end |-> Len(data), decoded |-> decoded]

\* MutSegment { raw: &mut self.data[start..end], decoded }
MutSegment(data, start, end, decoded) ==
  [start |-> start, end |-> end, decoded |-> decoded]

\* MutSegmentIter::new
MutSegmentIter(data) == [data |-> data, decoder |-> FreshDecoder, offset |-> 0]

\* What a call of next returns: None, Some segment, or no value when the
\* call panics.
Item(status, segment) == [status |-> status, segment |-> segment]

RECURSIVE next_loop(_, _)
\* The loop of MutSegmentIter::next: the iterator as the call leaves it, the
\* item returned, and for every pass of the loop the offset before and
\* after it and whether the pass returned.
next_loop(self, log) ==
  IF self.offset >= Len(self.data)
  THEN [self |-> self, item |-> Item("None", MutSegment(self.data, 0, 0, <<>>)),
        scanned |-> log]
  ELSE LET start == self.offset
           fed == raw_feed(self.decoder, Slice(self.data, start, Len(self.data)))
           end == start + fed.processed
           after == IF fed.err
                    THEN IF fed.upto > 0
                         THEN [self EXCEPT !.offset = @ + fed.upto, !.decoder = fed.decoder]
                         ELSE [self EXCEPT !.offset = @ + 2, !.decoder = FreshDecoder]
                    ELSE [self EXCEPT !.offset = @ + fed.processed, !.decoder = fed.decoder]
           long == Len(as_bytes(fed.decoded)) > 2
           logged == Append(log, [start |-> start, offset |-> after.offset,
                                  err |-> fed.err, upto |-> fed.upto,
                                  returned |-> long \/ ~fed.err])
       IN IF long
          THEN [self |-> after,
                item |-> Item("Some", MutSegment(self.data, start, end, fed.decoded)),
                scanned |-> logged]
          ELSE IF fed.err THEN next_loop(after, logged)
          ELSE [self |-> after, item |-> Item("None", MutSegment(self.data, 0, 0, <<>>)),
                scanned |-> logged]

\* MutSegmentIter::next. The capacity of the decoded string is
\* self.data.len() - self.offset: below zero the subtraction panics in a
\* build with overflow checks, and wraps to a capacity no allocation is
\* made for, which panics as well, in a build without.
next(self) ==
  IF self.offset > Len(self.data)
  THEN [self |-> self, item |-> Item("panic", MutSegment(self.data, 0, 0, <<>>)),
        scanned |-> <<>>]
  ELSE next_loop(self, <<>>)

\* Bound of the model: the number of chars of the text of a segment.
MaxChars == 3

\* The chars the texts are made of: '1', 'a', U+3131 (3 bytes of UTF-8, one
\* code unit) and U+10000 (4 bytes of UTF-8, a surrogate pair).
TextChars == {49, 97, 12593, 65536}

\* WStr of a text: its UTF-16 code units in little endian.
utf16le(text) ==
  LET units == utf16_units(text)
  IN Flatten([i \in DOMAIN units |-> to_le_bytes(units[i])])

(***************************************************************************)
(* The credentials of the configuration                                    *)
(***************************************************************************)

MaxCalls == 2     \* calls of replace_credentials

\* Config::replace_credentials on the credentials of the config and the
\* file of its folder; io_ok is whether the file system does what it is
\* asked to.  Credentials::save writes the file; without credentials the
\* file is removed if there is one.
replace_credentials(self, new_credentials, io_ok) ==
  IF self.credentials = new_credentials
  THEN [credentials |-> self.credentials, file |-> self.file, result |-> "Ok(false)"]
  ELSE IF new_credentials # None
  THEN IF io_ok
       THEN [credentials |-> new_credentials, file |-> new_credentials, result |-> "Ok(true)"]
       ELSE [credentials |-> self.credentials, file |-> self.file, result |-> "Err"]
  ELSE IF self.file # None /\ ~io_ok
  THEN [credentials |-> self.credentials, file |-> self.file, result |-> "Err"]
  ELSE [credentials |-> self.credentials, file |-> None, result |-> "Ok(true)"]

(***************************************************************************)
(* A message sent with an outcome for its failure                          *)
(***************************************************************************)

\* The function with the outcome sent for every failure.
send_with_outcome_error_always(delivered, outcome) ==
  IF delivered.mailbox_error # None
  THEN [outcomes |-> <<outcome>>,
        response |-> [status |-> "Err", value |-> <<"mailbox_error_builder", delivered.mailbox_error>>]]
  ELSE IF delivered.result.ok
  THEN [outcomes |-> <<>>, response |-> [status |-> "Ok", value |-> <<delivered.result.value>>]]
  ELSE [outcomes |-> <<outcome>>,
        response |-> [status |-> "Err", value |-> <<"result_error_builder", delivered.result.value>>]]

\* send_with_outcome_error, once the future of send resolved: map_err sends
\* the outcome and builds the error of a mailbox error; and_then passes the
\* item of the reply on or builds the error of the error of the handler.
send_with_outcome_error(delivered, outcome) ==
  IF delivered.mailbox_error # None
  THEN [outcomes |-> <<outcome>>,
        response |-> [status |-> "Err", value |-> <<"mailbox_error_builder", delivered.mailbox_error>>]]
  ELSE IF delivered.result.ok
  THEN [outcomes |-> <<>>, response |-> [status |-> "Ok", value |-> <<delivered.result.value>>]]
  ELSE [outcomes |-> <<>>,
        response |-> [status |-> "Err", value |-> <<"result_error_builder", delivered.result.value>>]]

(***************************************************************************)
(* The functions applied to their inputs                                   *)
(***************************************************************************)

\* The input of the given function is drawn; the other functions have none.
PureInit(function) ==
  /\ IF function = "header"
     THEN rate_limits \in
            {limits \in
               UNION {[1..n ->
                         [categories : {<<>>, <<"transaction", "unknown">>},
                          scope : {[name |-> "organization", id |-> Scoping.organization_id],
                                   [name |-> "project", id |-> Scoping.project_id],
                                   [name |-> "organization", id |-> 7]},
                          reason_code : {[some |-> FALSE, code |-> <<>>],
                                         [some |-> TRUE, code |-> <<"my_limit">>],
                                         [some |-> TRUE, code |-> <<"a", ":", "b">>]},
                          retry_after : 1..MaxRetry]] : n \in 0..MaxLimits} :
               \A i, j \in DOMAIN limits :
                 i < j => \/ limits[i].categories # limits[j].categories
                          \/ limits[i].scope # limits[j].scope}
     ELSE rate_limits = <<>>
  /\ header = [sent |-> FALSE, text |-> <<>>]
  /\ parsed = [done |-> FALSE, limits |-> <<>>]
  /\ IF function = "relays"
     THEN relays_info \in
            [public_keys : UNION {[ids -> RelayInfos \cup {None}] : ids \in SUBSET RelayIds},
             relays :
               UNION {[ids -> [some : {TRUE}, public_key : RelayInfos, internal : BOOLEAN]
                                \cup {[some |-> FALSE, public_key |-> None,
                                       internal |-> FALSE]}] : ids \in SUBSET RelayIds}]
     ELSE relays_info = [public_keys |-> <<>>, relays |-> <<>>]
  /\ relays_result = [converted |-> FALSE, relays |-> <<>>]
  /\ IF function = "builtin"
     THEN text_rule \in [rule_id : DOMAIN BUILTIN_RULES_MAP, matches : BOOLEAN]
     ELSE text_rule = [rule_id |-> None, matches |-> FALSE]
  /\ remarks = [processed |-> FALSE, remarks |-> <<>>]
  /\ IF function = "segments"
     THEN \E data \in Buffers : iter = MutSegmentIter(data)
     ELSE iter = MutSegmentIter(<<>>)
  /\ scanned = <<>>
  /\ segments = <<>>
  /\ nexts = <<>>
  /\ IF function = "wstr"
     THEN \E text \in UNION {[1..n -> TextChars] : n \in 1..MaxChars} :
            \E first \in 0..(Len(text) - 1) : \E to \in (first + 1)..Len(text) :
               matched = [all_text |-> text, all_encoded |-> utf16le(text),
                          from |-> first, to |-> to]
     ELSE matched = [all_text |-> <<>>, all_encoded |-> <<>>, from |-> 0, to |-> 0]
  /\ match_wstr = [called |-> FALSE, encoded_start |-> 0, encoded_end |-> 0,
                   panicked |-> FALSE]
  /\ IF function = "fetch"
     THEN /\ \E processing \in BOOLEAN : \E redis_cache \in {FALSE, processing} :
               fetch = [processing |-> processing, redis_cache |-> redis_cache,
                        pending |-> "local"]
          /\ lookups = <<[source |-> "local", reply |-> "pending"]>>
     ELSE /\ fetch = [processing |-> FALSE, redis_cache |-> FALSE, pending |-> None]
          /\ lookups = <<>>
  /\ project_state = Unresolved("pending")
  /\ IF function = "credentials"
     THEN credentials \in {None, "a", "b"}
     ELSE credentials = None
  /\ credentials_file = credentials
  /\ replaced = [calls |-> 0, credentials |-> None, result |-> "unset",
                 before |-> [credentials |-> None, file |-> None]]
  /\ IF function = "send"
     THEN \E outcome \in {"invalid", "rate_limited"} :
            delivery = [outcome |-> outcome, mailbox_error |-> "unset",
                        result |-> [ok |-> FALSE, value |-> "unset"]]
     ELSE delivery = [outcome |-> None, mailbox_error |-> "unset",
                      result |-> [ok |-> FALSE, value |-> "unset"]]
  /\ outcomes = <<>>
  /\ resolved = [status |-> "pending", value |-> <<>>]
  /\ part = function
  /\ IF function = "convert"
     THEN datascrubbing_config \in
            [scrub_data : BOOLEAN, scrub_ip_addresses : BOOLEAN, scrub_defaults : BOOLEAN,
             sensitive_fields :
               UNION {[1..n -> {<<>>, <<"a">>, <<"b", ".">>}] : n \in 0..MaxFields},
             exclude_fields : UNION {[1..n -> {"x", "y"}] : n \in 0..MaxExcluded}]
     ELSE datascrubbing_config = None
  /\ pii_config = [returned |-> "unset", rules |-> <<>>, applications |-> <<>>]
  /\ node = <<>>
  /\ applied = <<>>

\* to_pii_config is called for the configuration of the project.
Convert ==
  /\ part = "convert"
  /\ pii_config.returned = "unset"
  /\ \E empty_alternative \in BOOLEAN :
       pii_config' = to_pii_config(datascrubbing_config, empty_alternative)
  /\ UNCHANGED <<part, datascrubbing_config, node, applied, rate_limits,
                 header, parsed, relays_info, relays_result,
                 credentials, credentials_file, replaced,
                 delivery, outcomes, resolved, text_rule,
                 remarks, iter, scanned, segments, nexts,
                 matched, match_wstr, fetch, lookups,
                 project_state>>
  /\ UNCHANGED <<limVars, keysVars, scrubVars, projVars>>

\* The processor visits a node of an event, a string below one or two keys,
\* and applies the rules of every application whose selector matches the
\* path of the node.
ProcessValue ==
  /\ part = "convert"
  /\ pii_config.returned = "Some"
  /\ \E path \in UNION {[1..n -> {"x", "y", "z"}] : n \in 1..2} :
       /\ node' = [i \in DOMAIN path |->
                     [key |-> path[i],
                      value_type |-> IF i = Len(path) THEN "string" ELSE "object"]]
       /\ applied' =
            Flatten([i \in DOMAIN pii_config.applications |->
                       IF matches_selector(node', pii_config.applications[i].selector)
                       THEN pii_config.applications[i].rules ELSE <<>>])
  /\ UNCHANGED <<part, datascrubbing_config, pii_config, rate_limits, header,
                 parsed, relays_info, relays_result,
                 credentials, credentials_file, replaced,
                 delivery, outcomes, resolved, text_rule,
                 remarks, iter, scanned, segments, nexts,
                 matched, match_wstr, fetch, lookups,
                 project_state>>
  /\ UNCHANGED <<limVars, keysVars, scrubVars, projVars>>

\* The rate limits of a response are written into its header.
FormatRateLimits ==
  /\ part = "header"
  /\ ~header.sent
  /\ header' = [sent |-> TRUE, text |-> format_rate_limits(rate_limits)]
  /\ UNCHANGED <<part, datascrubbing_config, pii_config, node, applied,
                 rate_limits, parsed, relays_info,
                 relays_result, credentials, credentials_file,
                 replaced, delivery, outcomes, resolved,
                 text_rule, remarks, iter, scanned, segments,
                 nexts, matched, match_wstr, fetch, lookups,
                 project_state>>
  /\ UNCHANGED <<limVars, keysVars, scrubVars, projVars>>

\* A response arrives with a header written by someone else: up to
\* MaxEntries entries between ',', well-formed or not.
ReceiveHeader ==
  /\ part = "header"
  /\ ~header.sent
  /\ rate_limits = <<>>
  /\ \E entries \in
         UNION {[1..n ->
                   {<<>>,
                    <<" ">>,
                    <<"invalid">>,
                    <<":", "error", ":", "key">>,
                    <<ToString(1)>>,
                    <<ToString(1), ":", ":", "organization", ":", "my_limit">>,
                    <<" ", ToString(1), ":", "foobar", ";", "transaction", ":", "project">>,
                    <<ToString(1), ":", "transaction", ";", ";", "foobar", " ">>}]
                : n \in 0..MaxEntries} :
       header' = [sent |-> TRUE,
                  text |-> Flatten([i \in DOMAIN entries |->
                                      (IF i > 1 THEN <<",">> ELSE <<>>) \o entries[i]])]
  /\ UNCHANGED <<part, datascrubbing_config, pii_config, node, applied,
                 rate_limits, parsed, relays_info,
                 relays_result, credentials, credentials_file,
                 replaced, delivery, outcomes, resolved,
                 text_rule, remarks, iter, scanned, segments,
                 nexts, matched, match_wstr, fetch, lookups,
                 project_state>>
  /\ UNCHANGED <<limVars, keysVars, scrubVars, projVars>>

\* The header of a response is parsed for the scoping of the request.
ParseRateLimits ==
  /\ part = "header"
  /\ header.sent
  /\ ~parsed.done
  /\ parsed' = [done |-> TRUE, limits |-> parse_rate_limits(Scoping, header.text)]
  /\ UNCHANGED <<part, datascrubbing_config, pii_config, node, applied,
                 rate_limits, header, relays_info,
                 relays_result, credentials, credentials_file,
                 replaced, delivery, outcomes, resolved,
                 text_rule, remarks, iter, scanned, segments,
                 nexts, matched, match_wstr, fetch, lookups,
                 project_state>>
  /\ UNCHANGED <<limVars, keysVars, scrubVars, projVars>>

\* The response of the upstream is converted after it was deserialized.
ConvertResponse ==
  /\ part = "relays"
  /\ ~relays_result.converted
  /\ relays_result' = [converted |-> TRUE, relays |-> from(relays_info)]
  /\ UNCHANGED <<part, datascrubbing_config, pii_config, node, applied,
                 rate_limits, header, parsed, relays_info,
                 credentials, credentials_file, replaced,
                 delivery, outcomes, resolved, text_rule,
                 remarks, iter, scanned, segments, nexts,
                 matched, match_wstr, fetch, lookups,
                 project_state>>
  /\ UNCHANGED <<limVars, keysVars, scrubVars, projVars>>

\* process_value on a text with the rule of the application "text": a match
\* of the rule is redacted and a remark is recorded for it.
ProcessText ==
  /\ part = "builtin"
  /\ ~remarks.processed
  /\ \E rule \in {collect_rules(text_rule.rule_id)} :
       remarks' =
         [processed |-> TRUE,
          remarks |->
            IF text_rule.matches
            THEN <<[ty |-> CASE rule.redaction = "replace" -> "Substituted"
                             [] rule.redaction = "mask" -> "Masked"
                             [] rule.redaction = "hash" -> "Pseudonymized",
                    rule_id |-> rule.origin]>>
            ELSE <<>>]
  /\ UNCHANGED <<part, datascrubbing_config, pii_config, node, applied,
                 rate_limits, header, parsed, relays_info,
                 relays_result, credentials, credentials_file,
                 replaced, delivery, outcomes, resolved,
                 text_rule, iter, scanned, segments, nexts,
                 matched, match_wstr, fetch, lookups,
                 project_state>>
  /\ UNCHANGED <<limVars, keysVars, scrubVars, projVars>>

\* MutSegmentIter::next is called on the iterator, also after it returned
\* None; after a panic the iterator is gone.
IterNext ==
  /\ part = "segments"
  /\ Len(nexts) < MaxNexts
  /\ \A i \in DOMAIN nexts : nexts[i] # "panic"
  /\ \E call \in {next(iter)} :
       /\ iter' = call.self
       /\ scanned' = call.scanned
       /\ segments' = IF call.item.status = "Some"
                      THEN Append(segments, call.item.segment)
                      ELSE segments
       /\ nexts' = Append(nexts, call.item.status)
  /\ UNCHANGED <<part, datascrubbing_config, pii_config, node, applied,
                 rate_limits, header, parsed, relays_info,
                 relays_result, credentials, credentials_file,
                 replaced, delivery, outcomes, resolved,
                 text_rule, remarks, matched, match_wstr,
                 fetch, lookups, project_state>>
  /\ UNCHANGED <<limVars, keysVars, scrubVars, projVars>>

\* apply_regex_to_utf16le_bytes calls get_wstr_match for a match of the
\* regex in the decoded text of a segment, in a build with or without debug
\* assertions.
GetWstrMatch ==
  /\ part = "wstr"
  /\ ~match_wstr.called
  /\ \E debug \in BOOLEAN :
       \E found \in {get_wstr_match(matched.all_text,
                                     <<text_offset(matched.all_text, matched.from),
                                       text_offset(matched.all_text, matched.to)>>,
                                     matched.all_encoded, debug)} :
          match_wstr' = [called |-> TRUE, encoded_start |-> found.encoded_start,
                         encoded_end |-> found.encoded_end, panicked |-> found.panicked]
  /\ UNCHANGED <<part, datascrubbing_config, pii_config, node, applied,
                 rate_limits, header, parsed, relays_info,
                 relays_result, credentials, credentials_file,
                 replaced, delivery, outcomes, resolved,
                 text_rule, remarks, iter, scanned, segments,
                 nexts, matched, fetch, lookups, project_state>>
  /\ UNCHANGED <<limVars, keysVars, scrubVars, projVars>>

\* The source whose reply the future of the handler awaits replies, and
\* the future goes on with the closure chained to that request.
SourceReplies ==
  /\ part = "fetch"
  /\ fetch.pending # None
  /\ \E replied \in (IF fetch.pending = "upstream" THEN UpstreamReplies ELSE OptionalReplies) :
       \E chain \in {CASE fetch.pending = "local" -> after_local(fetch, replied)
                        [] fetch.pending = "redis" -> after_redis(fetch, replied)
                        [] fetch.pending = "upstream" -> after_upstream(fetch, replied)} :
          /\ fetch' = chain.fetch
          /\ project_state' = chain.project_state
          /\ lookups' =
               [lookups EXCEPT ![Len(lookups)].reply = replied.kind]
               \o (IF chain.fetch.pending = None THEN <<>>
                   ELSE <<[source |-> chain.fetch.pending, reply |-> "pending"]>>)
  /\ UNCHANGED <<part, datascrubbing_config, pii_config, node, applied,
                 rate_limits, header, parsed, relays_info,
                 relays_result, credentials, credentials_file,
                 replaced, delivery, outcomes, resolved,
                 text_rule, remarks, iter, scanned, segments,
                 nexts, matched, match_wstr>>
  /\ UNCHANGED <<limVars, keysVars, scrubVars, projVars>>

\* Config::replace_credentials is called with credentials or with none.
ReplaceCredentials ==
  /\ part = "credentials"
  /\ replaced.calls < MaxCalls
  /\ \E new_credentials \in {None, "a", "b"}, io_ok \in BOOLEAN :
       \E r \in {replace_credentials([credentials |-> credentials, file |-> credentials_file],
                                     new_credentials, io_ok)} :
          /\ credentials' = r.credentials
          /\ credentials_file' = r.file
          /\ replaced' = [calls |-> replaced.calls + 1, credentials |-> new_credentials,
                          result |-> r.result,
                          before |-> [credentials |-> credentials, file |-> credentials_file]]
  /\ UNCHANGED <<part, datascrubbing_config, pii_config, node, applied,
                 rate_limits, header, parsed, relays_info,
                 relays_result, delivery, outcomes, resolved,
                 text_rule, remarks, iter, scanned, segments,
                 nexts, matched, match_wstr, fetch, lookups,
                 project_state>>
  /\ UNCHANGED <<limVars, keysVars, scrubVars, projVars>>

\* The future of send_with_outcome_error resolves: the message was not
\* delivered, or the actor replied with an item or with an error.
SendWithOutcomeError ==
  /\ part = "send"
  /\ resolved.status = "pending"
  /\ \E delivered \in
         {[mailbox_error |-> e, result |-> [ok |-> FALSE, value |-> "unset"]] :
            e \in {"closed", "timeout"}}
         \cup {[mailbox_error |-> None, result |-> r] :
                 r \in {[ok |-> TRUE, value |-> "item"], [ok |-> FALSE, value |-> "error"]}} :
       \E r \in {send_with_outcome_error(delivered, delivery.outcome)} :
          /\ delivery' = [outcome |-> delivery.outcome, mailbox_error |-> delivered.mailbox_error,
                          result |-> delivered.result]
          /\ outcomes' = outcomes \o r.outcomes
          /\ resolved' = r.response
  /\ UNCHANGED <<part, datascrubbing_config, pii_config, node, applied,
                 rate_limits, header, parsed, relays_info,
                 relays_result, credentials, credentials_file,
                 replaced, text_rule, remarks, iter, scanned,
                 segments, nexts, matched, match_wstr, fetch,
                 lookups, project_state>>
  /\ UNCHANGED <<limVars, keysVars, scrubVars, projVars>>

PureNext ==
  \/ Convert
  \/ ProcessValue
  \/ FormatRateLimits
  \/ ReceiveHeader
  \/ ParseRateLimits
  \/ ConvertResponse
  \/ ProcessText
  \/ IterNext
  \/ GetWstrMatch
  \/ SourceReplies
  \/ ReplaceCredentials
  \/ SendWithOutcomeError

(***************************************************************************)
(* Specifications                                                          *)
(***************************************************************************)

InitLimiter == LimInit /\ KeysParked /\ ScrubParked /\ ProjInit /\ PureInit("none")

SpecLimiter == InitLimiter /\ [][LimNext]_vars

InitKeys == KeysInit /\ LimInit /\ ScrubParked /\ ProjInit /\ PureInit("none")

SpecKeys == InitKeys /\ [][KeysNext]_vars

SpecKeysCancel == InitKeys /\ [][KeysCancelNext]_vars

\* The actor runs every scheduled fetch, the upstream request always ends, and
\* time passes.
SpecKeysAge ==
  /\ InitKeys
  /\ [][KeysAgeNext]_vars
  /\ WF_vars(fetch_keys)
  /\ WF_vars(UpstreamOk \/ UpstreamErr \/ MailboxErr)
  /\ WF_vars(Age)

InitScrub == ScrubInit /\ LimInit /\ KeysParked /\ ProjInit /\ PureInit("none")

SpecScrub == InitScrub /\ [][ScrubNext]_vars

InitProjects == ProjInit /\ LimInit /\ KeysParked /\ ScrubParked /\ PureInit("none")

SpecProjects == InitProjects /\ [][ProjNext]_vars

InitPure ==
  /\ \E function \in {"convert", "header", "relays", "builtin", "segments", "wstr", "fetch",
                       "credentials", "send"} : PureInit(function)
  /\ LimInit /\ KeysParked /\ ScrubParked /\ ProjInit

SpecPure == InitPure /\ [][PureNext]_vars


(***************************************************************************)
(* Claims about the rate-limit enforcer                                    *)
(***************************************************************************)

Ran == last.result # None

RanOk == last.result = "ok"

Ids(items) == {items[i].id : i \in DOMAIN items}

ItemsOf(items) == {items[i] : i \in DOMAIN items}

Kept(item) == item.id \in Ids(envelope)

Called(category) == \E i \in DOMAIN last.calls : last.calls[i].category = category

\* The event check of the last run returned an active limit.
EventLimited ==
  /\ RanOk
  /\ last.summary.event_category # None
  /\ checkAns[last.summary.event_category] = "limit"

\* The attachment check of the last run returned an active limit.
AttachmentLimited == RanOk /\ Called("attachment") /\ checkAns["attachment"] = "limit"

\* The session check of the last run returned an active limit.
SessionLimited == RanOk /\ Called("session") /\ checkAns["session"] = "limit"

IsPrefix(s, t) == Len(s) <= Len(t) /\ SubSeq(t, 1, Len(s)) = s

\* The quantity of the items of the type that are not flagged rate_limited.
RECURSIVE Unflagged(_, _)
Unflagged(items, ty) ==
  IF items = <<>> THEN 0
  ELSE (IF Head(items).ty = ty /\ ~Head(items).rate_limited
        THEN (IF ty = "attachment" THEN Max(Head(items).len, 1) ELSE 1)
        ELSE 0) + Unflagged(Tail(items), ty)

\* The calls C5 prescribes for the last run, when the event check answers
\* as it did.
PrescribedCalls ==
  LET category == last.summary.event_category
      attachments == last.summary.attachment_quantity
      sessions == last.summary.session_quantity
      eventLimit == category # None /\ checkAns[category] = "limit"
  IN (IF category # None THEN <<[category |-> category, quantity |-> 1]>> ELSE <<>>)
     \o (IF ~eventLimit /\ attachments > 0
         THEN <<[category |-> "attachment", quantity |-> attachments]>> ELSE <<>>)
     \o (IF sessions > 0
         THEN <<[category |-> "session", quantity |-> sessions]>> ELSE <<>>)

\* C5 as stated: in every run of enforce the calls of check are exactly the
\* event check iff an event category is known, then the attachment check
\* iff no event limit is active and attachment_quantity > 0, then the
\* session check iff session_quantity > 0.
C5_Original == Ran => last.calls = PrescribedCalls

\* C5 (amended): a run of enforce in which no check returns an error makes
\* exactly the prescribed calls, in the order event, attachment, session,
\* each category once; a run in which a check returns an error makes the
\* prescribed calls up to and including the one that returned the error, and
\* none after it.
C5_CheckSequence ==
  Ran =>
    /\ IsPrefix(last.calls, PrescribedCalls)
    /\ \A i, j \in DOMAIN last.calls :
         i # j => last.calls[i].category # last.calls[j].category
    /\ \A i \in DOMAIN last.calls :
         (checkAns[last.calls[i].category] = "err") <=>
            (last.result = "err" /\ i = Len(last.calls))
    /\ RanOk => last.calls = PrescribedCalls

C5_Witness ==
  /\ RanOk
  /\ Len(last.calls) = 3
  /\ last.calls[2].category = "attachment"

\* C6: when the event check returned an active limit and enforce returned
\* Ok, no item that requires an event is left in the envelope, and an item
\* that does not require an event is left in the envelope unless it is a
\* session item and the session limit is active.
C6_EventLimitDropsDependents ==
  EventLimited =>
    /\ \A i \in DOMAIN envelope : ~requires_event(envelope[i])
    /\ \A item \in ItemsOf(last.pre) :
         ~requires_event(item) =>
            (Kept(item) <=> ~(item.ty = "session" /\ SessionLimited))

C6_Witness ==
  /\ EventLimited
  /\ \E item \in ItemsOf(last.pre) : item.ty = "attachment" /\ creates_event(item)
  /\ \E item \in ItemsOf(last.pre) : ~requires_event(item) /\ Kept(item)

\* C7: when the attachment check returned an active limit and enforce
\* returned Ok, every attachment that does not create an event is removed,
\* and every event-creating attachment is still in the envelope with its
\* rate_limited flag set.
C7_AttachmentLimit ==
  AttachmentLimited =>
    \A item \in ItemsOf(last.pre) :
      item.ty = "attachment" =>
        IF creates_event(item)
        THEN \E i \in DOMAIN envelope :
               /\ envelope[i] = [item EXCEPT !.rate_limited = TRUE]
        ELSE ~Kept(item)

C7_Witness ==
  /\ AttachmentLimited
  /\ \E item \in ItemsOf(last.pre) :
       item.ty = "attachment" /\ creates_event(item) /\ ~item.rate_limited
  /\ \E item \in ItemsOf(last.pre) :
       item.ty = "attachment" /\ ~creates_event(item)

\* C8: when the session check returned an active limit and enforce returned
\* Ok, every session item is removed, and an item that is not a session
\* item is removed only by the event limit (it requires an event) or by the
\* attachment limit (it is a plain attachment); when the event limit is
\* active and the session limit is not, every session item is retained.
C8_SessionsIndependent ==
  /\ SessionLimited =>
       /\ \A i \in DOMAIN envelope : envelope[i].ty # "session"
       /\ \A item \in ItemsOf(last.pre) :
            (item.ty # "session" /\ ~Kept(item)) =>
               \/ EventLimited /\ requires_event(item)
               \/ AttachmentLimited /\ item.ty = "attachment" /\ ~creates_event(item)
  /\ (EventLimited /\ ~SessionLimited) =>
       \A item \in ItemsOf(last.pre) : item.ty = "session" => Kept(item)

C8_Witness ==
  /\ SessionLimited
  /\ \E item \in ItemsOf(last.pre) : item.ty = "session"
  /\ \E item \in ItemsOf(last.pre) : item.ty = "sessions" /\ Kept(item)

\* The items of the last run's input that were flagged rate_limited.
Flagged == {item \in ItemsOf(last.pre) : item.rate_limited}

\* C9 as stated: an item flagged rate_limited before enforce adds nothing to
\* the quantities passed to check, triggers no check by itself (an envelope
\* of flagged items only, with no assumed event, leads to no check), and no
\* limited-item record is made for it.
C9_Original ==
  Ran =>
    /\ last.summary.attachment_quantity = Unflagged(last.pre, "attachment")
    /\ last.summary.session_quantity = Unflagged(last.pre, "session")
    /\ (assumed = None /\ Flagged = ItemsOf(last.pre)) => last.calls = <<>>
    /\ \A i \in DOMAIN last.limited_items :
         \A item \in Flagged : last.limited_items[i].item # item.id

\* C9 (amended): an item flagged rate_limited before enforce adds nothing to
\* attachment_quantity or session_quantity, so it triggers no attachment or
\* session check by itself, and the attachment and session limits make no
\* limited-item record for it; a flagged item that creates an event still
\* sets the event category, so that check(event_category, 1) is invoked, and
\* it gets a limited-item record exactly when the event limit removes it.
C9_SkipRateLimited ==
  Ran =>
    /\ last.summary.attachment_quantity = Unflagged(last.pre, "attachment")
    /\ last.summary.session_quantity = Unflagged(last.pre, "session")
    /\ (assumed = None /\ Flagged = ItemsOf(last.pre)) =>
          /\ ~Called("attachment") /\ ~Called("session")
          /\ (last.calls # <<>>) <=> (\E item \in Flagged : creates_event(item))
    /\ \A item \in Flagged :
         (\E i \in DOMAIN last.limited_items : last.limited_items[i].item = item.id)
            <=> (EventLimited /\ infer_event_category(item) # None)
    /\ \A i \in DOMAIN last.limited_items :
         \A item \in Flagged :
            last.limited_items[i].item = item.id =>
               /\ last.limited_items[i].applied_limit = last.summary.event_category
               /\ ~Kept(item)

C9_Witness ==
  /\ AttachmentLimited
  /\ \E item \in Flagged : item.ty = "attachment" /\ creates_event(item) /\ Kept(item)

\* C10: a further run of enforce on the envelope left by a run, with a check
\* that answers each category as before, removes no item.
C10_SecondPassRemovesNothing ==
  \A k \in 3..Len(trail) : Ids(trail[k]) = Ids(trail[k - 1])

C10_Witness ==
  /\ passes = 2
  /\ RanOk
  /\ Len(trail[2]) < Len(trail[1])
  /\ trail[2] # <<>>
  /\ \E i \in DOMAIN trail[1], j \in DOMAIN trail[2] :
       /\ trail[1][i].id = trail[2][j].id
       /\ ~trail[1][i].rate_limited /\ trail[2][j].rate_limited

\* A check of the last run returned an error.
CheckFailed == \E i \in DOMAIN last.calls : checkAns[last.calls[i].category] = "err"

\* C11: when an invocation of check returned an error, enforce returns the
\* error, with no rate limits and no limited items, and the envelope is as
\* it was before the call: the same items in the same order, with the
\* rate_limited flags they had.
C11_ErrorLeavesEnvelope ==
  CheckFailed =>
    /\ last.result = "err"
    /\ envelope = last.pre
    /\ last.rate_limits = {}
    /\ last.limited_items = <<>>

\* The event check returned an active limit, and the session check an error.
C11_Witness ==
  /\ last.result = "err"
  /\ Len(last.calls) = 2
  /\ checkAns[last.calls[1].category] = "limit"
  /\ \E i \in DOMAIN envelope : requires_event(envelope[i])
  /\ \E i \in DOMAIN envelope : envelope[i].ty = "session"

\* The records of the last run's limited items that were made for the item.
RecordsOf(item) ==
  {i \in DOMAIN last.limited_items : last.limited_items[i].item = item.id}

\* The data category of an item: the category of the event it creates, and
\* otherwise the category its quota is counted in.
CategoryOf(item) ==
  IF infer_event_category(item) # None THEN infer_event_category(item)
  ELSE IF item.ty = "attachment" THEN "attachment"
  ELSE IF item.ty = "session" THEN "session"
  ELSE "default"

\* The limit of the last run that removes the item, if one does.
RemovingLimit(item) ==
  IF last.event_limit # None /\ requires_event(item) THEN last.event_limit
  ELSE IF item.ty = "attachment" THEN last.attachment_limit
  ELSE IF item.ty = "session" THEN last.session_limit
  ELSE None

\* C12 as stated: a run of enforce that returns Ok returns exactly one
\* (item category, applied limit) pair for each item it removed from the
\* envelope, with the data category of that item and the limit that removed
\* it, and no pair for an item that stays in the envelope.
C12_Original ==
  RanOk =>
    \A item \in ItemsOf(last.pre) :
      IF Kept(item) THEN RecordsOf(item) = {}
      ELSE /\ Cardinality(RecordsOf(item)) = 1
           /\ \A i \in RecordsOf(item) :
                /\ last.limited_items[i].item_category = CategoryOf(item)
                /\ last.limited_items[i].applied_limit = RemovingLimit(item)

\* The attachment limit removes a plain attachment and no pair is returned
\* for it, while a pair is returned for the minidump that stays.
C12_Witness ==
  /\ AttachmentLimited
  /\ \E item \in ItemsOf(last.pre) :
       item.ty = "attachment" /\ ~creates_event(item) /\ ~Kept(item)
         /\ RecordsOf(item) = {}
  /\ \E item \in ItemsOf(last.pre) :
       item.ty = "attachment" /\ creates_event(item) /\ Kept(item)
         /\ RecordsOf(item) # {}

\* The plain attachments of the last run's input: those that create no event.
PlainAttachments ==
  {item \in ItemsOf(last.pre) : item.ty = "attachment" /\ ~creates_event(item)}

\* C13: when the attachment check returned an active limit and enforce
\* returned Ok, the attachment limit is among the returned rate limits iff
\* the envelope held at least one plain attachment; with event-creating
\* attachments only, the attachment quota was checked and every attachment
\* is flagged rate_limited, yet the attachment limit is not returned, and
\* the returned limits are not limited at all unless the session limit is
\* active.
C13_PlainAttachmentsSurface ==
  AttachmentLimited =>
    /\ ("attachment" \in last.rate_limits) <=> (PlainAttachments # {})
    /\ (PlainAttachments = {}) =>
          /\ Called("attachment")
          /\ \A i \in DOMAIN envelope :
               envelope[i].ty = "attachment" => envelope[i].rate_limited
          /\ ~SessionLimited => last.rate_limits = {}

\* A minidump alone under an active attachment limit: it stays, flagged, and
\* no limit is returned.
C13_Witness ==
  /\ AttachmentLimited
  /\ PlainAttachments = {}
  /\ last.rate_limits = {}
  /\ \E item \in ItemsOf(last.pre) :
       /\ item.ty = "attachment" /\ ~item.rate_limited
       /\ \E i \in DOMAIN envelope :
            envelope[i].id = item.id /\ envelope[i].rate_limited

\* C30: with assume_event(c), enforce calls check(c, 1) first, also when no
\* item of the envelope carries an event, and c takes the place of the
\* category inferred from the items; when that check returns an active limit
\* the attachment check is not invoked and, enforce returning Ok, no item that
\* requires an event is left in the envelope.
C30_AssumedEvent ==
  (Ran /\ assumed # None) =>
    /\ last.summary.event_category = assumed
    /\ last.calls # <<>>
    /\ last.calls[1] = [category |-> assumed, quantity |-> 1]
    /\ \A i \in DOMAIN last.calls : i > 1 => last.calls[i].category # assumed
    /\ last.event_limit # None =>
         /\ last.event_limit = assumed
         /\ ~Called("attachment")
         /\ RanOk => \A i \in DOMAIN envelope : ~requires_event(envelope[i])

\* Plain attachments only, none of them flagged, with an assumed event whose
\* check returns an active limit: the attachments are removed although no
\* item carries an event.
C30_Witness ==
  /\ RanOk
  /\ assumed # None
  /\ last.event_limit = assumed
  /\ Len(last.pre) = MaxItems
  /\ \A item \in ItemsOf(last.pre) :
       item.ty = "attachment" /\ ~creates_event(item) /\ ~item.rate_limited
  /\ envelope = <<>>

\* C33: the summary enforce computes of the envelope has attachment_quantity
\* equal to the sum of max(len, 1) over the attachment items that are not
\* flagged rate_limited, those that create an event included, session_quantity
\* equal to the number of session items that are not flagged,
\* has_plain_attachments iff some attachment item does not create an event,
\* and, unless an event was assumed, event_category equal to the category of
\* the first item, in the order of the envelope, that creates an event.
C33_SummaryOfEnvelope ==
  Ran =>
    LET items == last.pre
        creating == SelectSeq(items, creates_event)
    IN /\ last.summary.attachment_quantity = Unflagged(items, "attachment")
       /\ last.summary.session_quantity = Unflagged(items, "session")
       /\ last.summary.has_plain_attachments <=>
            \E item \in ItemsOf(items) : item.ty = "attachment" /\ ~creates_event(item)
       /\ assumed = None =>
            last.summary.event_category =
              IF creating = <<>> THEN None ELSE infer_event_category(Head(creating))

\* An envelope of a transaction followed by a minidump of no bytes was
\* summarized: the category is the one of the transaction, and the minidump
\* counts as one byte.
C33_Witness ==
  /\ Ran
  /\ assumed = None
  /\ Len(last.pre) = 2
  /\ last.pre[1].ty = "transaction"
  /\ last.pre[2].ty = "attachment" /\ creates_event(last.pre[2])
  /\ last.pre[2].len = 0 /\ ~last.pre[2].rate_limited
  /\ last.summary.event_category = "transaction"
  /\ last.summary.attachment_quantity = 1
  /\ ~last.summary.has_plain_attachments

(***************************************************************************)
(* Claims about the relay-info cache                                       *)
\* An entry of the relay map whose check lies more than twice the relay
\* validity period back.
Outdated(id) ==
  /\ relays[id] # Vacant
  /\ now - relays[id].checked_at > 2 * relay_cache_expiry

\* C21: a relay-info entry whose checked_at is older than twice relay_expiry is
\* removed from the relay map by an eviction sweep: the stale entry eventually
\* returns to the absent state instead of staying in the map indefinitely.
C21_Original == \A id \in RelayIds : Outdated(id) ~> (relays[id] = Vacant)

\* A relay entry has aged past twice the relay validity period and is still in
\* the map.
C21_Witness == \E id \in RelayIds : Outdated(id) /\ now = MaxAge

(***************************************************************************)

\* The receivers get_or_fetch_info handed out as Response::r#async.
Registered == {i \in DOMAIN callers : callers[i].channel # 0}

Pending == {i \in DOMAIN callers : callers[i].state = "pending"}

\* What a caller has observed: nothing yet, a value, or FetchFailed.
Observed(i) == <<callers[i].state, callers[i].value>>

C3_OneFetchCycle == timers + Cardinality(requests) <= 1

C3_Witness ==
  /\ timers = 0
  /\ Cardinality(requests) = 1
  /\ Keys(relay_info_channels) # {}
  /\ Len(sent) >= 2

\* C4: a step of fetch_keys leaves the channel map empty and sends one
\* upstream query; every id the map held a channel for, and every id with a
\* waiting receiver, is in the relay_ids of that query, and is in exactly
\* one of the queries awaiting a response.
C4_TickDrainsAll ==
  [][(Len(sent') = Len(sent) + 1) =>
       /\ relay_info_channels' = NoChannels
       /\ Cardinality(requests' \ requests) = 1
       /\ \A id \in Keys(relay_info_channels) \cup {callers[i].id : i \in Pending} :
            /\ id \in sent'[Len(sent')]
            /\ Cardinality({r \in requests' : id \in Keys(r.channels)}) = 1]_vars

C4_Witness ==
  /\ sent # <<>>
  /\ sent[Len(sent)] = RelayIds
  /\ Cardinality(requests) = 1
  /\ \A id \in RelayIds : \E i \in Pending : callers[i].id = id

\* The entry of the id exists and is within its validity period: less than
\* relay_expiry old for an existing relay, less than miss_expiry old for a
\* relay known to be absent.
Fresh(id) ==
  \/ relays[id].state = "exists" /\ now - relays[id].checked_at < relay_cache_expiry
  \/ relays[id].state = "does_not_exist"
       /\ now - relays[id].checked_at < cache_miss_expiry

\* The value of the entry of the id: the relay info, or None for a relay
\* known to be absent.
CachedValue(id) == IF relays[id].state = "exists" THEN relays[id].relay_info ELSE None

\* C14: in every step that answers requests for relay infos, a request for
\* an id whose entry is fresh is answered at once with the value of the
\* entry, registers no receiver, and, when all ids of the step are fresh,
\* leaves the channel map, the backoff and the timers as they were; a
\* request for an id with no entry or with an expired entry is never
\* answered from the cache: with credentials it registers a receiver on the
\* channel of the id, without credentials it is answered with None.
C14_FastPathIffFresh ==
  [][\A k \in (Len(callers) + 1)..Len(callers') :
       LET id == callers'[k].id
       IN /\ Fresh(id) =>
               /\ callers'[k].channel = 0
               /\ callers'[k].state = "ready"
               /\ callers'[k].value = CachedValue(id)
          /\ (\A j \in (Len(callers) + 1)..Len(callers') : Fresh(callers'[j].id)) =>
               /\ relay_info_channels' = relay_info_channels
               /\ backoff' = backoff
               /\ timers' = timers
          /\ (~Fresh(id) /\ has_credentials) =>
               /\ callers'[k].state = "pending"
               /\ callers'[k].channel # 0
               /\ callers'[k].channel = relay_info_channels'[id]
          /\ (~Fresh(id) /\ ~has_credentials) =>
               /\ callers'[k].channel = 0
               /\ callers'[k].value = None]_vars

\* A relay info was served from the cache, and after the entry expired a
\* request for the same id registered a receiver.
C14_Witness ==
  \E i, j \in DOMAIN callers :
    /\ i < j
    /\ callers[i].id = callers[j].id
    /\ callers[i].channel = 0 /\ callers[i].value \in RelayInfos
    /\ callers[j].state = "pending"
    /\ relays[callers[j].id].state = "exists"
    /\ now - relays[callers[j].id].checked_at >= relay_cache_expiry

\* The receivers of a channel.
ReceiversOf(channel) == {i \in DOMAIN callers : callers[i].channel = channel}

\* The step handles the upstream's answer to the query with the response.
AnsweredOk(request, response) ==
  /\ \A id \in RelayIds \ Keys(request.channels) : response[id] = None
  /\ requests' = requests \ {request}
  /\ Become(response_ok(Cache, request.channels, response))

\* The step handles the failure of the upstream query.
AnsweredErr(request) ==
  /\ requests' = requests \ {request}
  /\ Become(response_err(Cache, request.channels))

\* C15: a step that handles a successful response to a batched query resets
\* the backoff (a retry scheduled in the same step for channels queued in
\* the meanwhile is attempt one again); for every id drained into the query
\* the entry becomes Exists with the returned info, or DoesNotExist when
\* the response has no info for the id, checked now; every receiver of the
\* id's channel was waiting and now has exactly that value; the channel is
\* not in the channel map; and no other entry and no other receiver
\* changes.
C15_SuccessFansOut ==
  [][\A request \in requests :
       \A response \in [RelayIds -> RelayInfos \cup {None}] :
         AnsweredOk(request, response) =>
           /\ backoff' = IF Keys(relay_info_channels) # {} THEN 1 ELSE 0
           /\ \A id \in Keys(request.channels) :
                /\ relays'[id] =
                     [state |-> IF response[id] # None THEN "exists" ELSE "does_not_exist",
                      relay_info |-> response[id], checked_at |-> now]
                /\ ReceiversOf(request.channels[id]) # {}
                /\ \A i \in ReceiversOf(request.channels[id]) :
                     /\ callers[i].state = "pending"
                     /\ callers'[i].state = "ready"
                     /\ callers'[i].value = response[id]
                /\ relay_info_channels'[id] # request.channels[id]
           /\ \A id \in RelayIds \ Keys(request.channels) : relays'[id] = relays[id]
           /\ \A i \in DOMAIN callers :
                (\A id \in RelayIds : callers[i].channel # request.channels[id]) =>
                   callers'[i] = callers[i]]_vars

\* A query for both ids was answered with an info for one and none for the
\* other, to two receivers of one channel and one of the other.
C15_Witness ==
  /\ requests = {}
  /\ backoff = 0
  /\ relays["r1"].state = "exists"
  /\ relays["r2"].state = "does_not_exist"
  /\ \E i, j, k \in Registered :
       /\ i # j
       /\ callers[i].channel = callers[j].channel
       /\ callers[i].id = "r1" /\ callers[k].id = "r2"
       /\ \A x \in {i, j} :
            callers[x].state = "ready" /\ callers[x].value = relays["r1"].relay_info
       /\ callers[k].state = "ready" /\ callers[k].value = None
  /\ Len(sent) = 1

\* C16: a step that handles the failure of a batched upstream query puts the
\* channel of every id drained into the query back into the channel map;
\* every receiver of these channels was waiting and still is, neither
\* resolved nor failed; the cached entries are unchanged; the backoff is not
\* reset but advanced by one attempt; and one more fetch is scheduled.
C16_FailureRequeues ==
  [][\A request \in requests :
       AnsweredErr(request) =>
         /\ Keys(request.channels) # {}
         /\ \A id \in Keys(request.channels) :
              /\ relay_info_channels'[id] = request.channels[id]
              /\ ReceiversOf(request.channels[id]) # {}
              /\ \A i \in ReceiversOf(request.channels[id]) :
                   /\ callers[i].state = "pending"
                   /\ callers'[i] = callers[i]
         /\ relays' = relays
         /\ backoff >= 1
         /\ backoff' = backoff + 1
         /\ timers' = timers + 1]_vars

\* After a failed query for both ids: the two original waiters still wait on
\* the channels that are back in the map, the second attempt is scheduled.
C16_Witness ==
  /\ Len(sent) = 1
  /\ sent[1] = RelayIds
  /\ requests = {}
  /\ backoff = 2
  /\ timers = 1
  /\ \A id \in RelayIds :
       \E i \in Pending :
         /\ callers[i].id = id
         /\ callers[i].channel = relay_info_channels[id]
         /\ epoch[id] = callers[i].epoch + 2

\* C17 as stated, the part a finite run can refute: the cache keeps
\* retrying while receivers wait, so it is never in a state where the
\* channel map holds a channel while no fetch is scheduled and no upstream
\* query is in flight; without this no waiter of such a channel is ever
\* resolved, however the messages are scheduled.
C17_Original ==
  Keys(relay_info_channels) # {} => timers + Cardinality(requests) >= 1

\* The send of the first query failed with a MailboxError, its receiver got
\* FetchFailed, and a later receiver waits on a channel that no timer and no
\* query will ever drain: the backoff still counts as started.
C17_Witness ==
  /\ Len(sent) = 1
  /\ timers = 0
  /\ requests = {}
  /\ backoff > 0
  /\ \E i, j \in Registered :
       /\ i < j
       /\ callers[i].state = "failed"
       /\ callers[j].state = "pending"
       /\ relay_info_channels[callers[j].id] = callers[j].channel

\* The callers that dropped their response future while it was pending and
\* whose channel has not been resolved or dropped since.
Abandoned == {i \in cancelled : callers[i].state = "pending"}

\* C18: a step in which a caller drops its pending response future changes
\* nothing in the cache: the channel map, the timers, the queries in
\* flight, the backoff, the entries and the other receivers are as they
\* were. The channel of a dropped receiver stays in the channel map or in
\* the query in flight; a step of fetch_keys includes its id in the query
\* it sends; and the step that handles the successful response updates the
\* entry of every id of the query, whether or not its receivers were
\* dropped.
C18_CancelKeepsFetch ==
  [][/\ (cancelled' # cancelled) =>
          /\ relay_info_channels' = relay_info_channels
          /\ requests' = requests
          /\ timers' = timers
          /\ backoff' = backoff
          /\ relays' = relays
          /\ callers' = callers
     /\ \A i \in cancelled' :
          callers'[i].state = "pending" =>
            \/ relay_info_channels'[callers'[i].id] = callers'[i].channel
            \/ \E request \in requests' :
                 request.channels[callers'[i].id] = callers'[i].channel
     /\ (Len(sent') = Len(sent) + 1) =>
          \A i \in Abandoned :
            relay_info_channels[callers[i].id] = callers[i].channel =>
               callers[i].id \in sent'[Len(sent')]
     /\ \A request \in requests :
          \A response \in [RelayIds -> RelayInfos \cup {None}] :
            AnsweredOk(request, response) =>
              \A i \in Abandoned :
                request.channels[callers[i].id] = callers[i].channel =>
                  /\ relays'[callers[i].id].checked_at = now
                  /\ relays'[callers[i].id].relay_info = response[callers[i].id]
                  /\ relays'[callers[i].id].state # "vacant"]_vars

\* The only caller that asked for the id dropped its future, and the entry
\* of the id was fetched all the same.
C18_Witness ==
  /\ Len(sent) = 1
  /\ requests = {}
  /\ \E i \in cancelled :
       /\ relays[callers[i].id].state = "exists"
       /\ \A j \in DOMAIN callers : callers[j].id = callers[i].id => j = i

(***************************************************************************)
(* Claims about the attachment scrubber                                    *)
(***************************************************************************)

\* The bytes of the attachment that lie in no range handed to
\* apply_redaction.
Untouched ==
  {i \in DOMAIN original : \A r \in ranges : ~(r[1] < i /\ i <= r[2])}

\* C1: before and after scrub_attachment, whatever the buffer and the
\* rules, and also when the call panics, the buffer has the length it had,
\* and every byte outside the ranges handed to apply_redaction is the byte
\* it was: the redactions write inside their slice only and neither insert
\* nor delete bytes.
C1_LengthPreserved ==
  /\ Len(attachment) = Len(original)
  /\ \A i \in Untouched : attachment[i] = original[i]

\* The UTF-16LE text "11a" is hashed by a pattern rule: the UTF-16LE pass
\* writes two digits of the hash, each followed by a zero byte.
C1_Witness ==
  /\ result = "true"
  /\ original = <<49, 0, 49, 0, 97, 0>>
  /\ compiled_config[1].rules[1] =
       [ty |-> "pattern", redaction |-> [method |-> "hash", text |-> <<>>]]
  /\ ranges = {<<0, 4>>}
  /\ attachment # original
  /\ attachment[2] = 0 /\ attachment[4] = 0
  /\ SubSeq(attachment, 5, 6) = <<97, 0>>

\* Whether the selector of an application matches the path of the attachment.
Selects(application) == matches_selector(AttachmentState, application.selector)

\* C27: scrub_bytes applies a rule to the buffer only if the selector of the
\* rule's application matches the state path of the attachment (the root of
\* value type attachments, then the file with its value type): the buffer is
\* left as the applications with a matching selector alone leave it, and when
\* no selector matches the buffer is unchanged and the result is false.
C27_SelectorGates ==
  (result # None /\ \E i \in DOMAIN compiled_config : ~Selects(compiled_config[i])) =>
    /\ \E debug \in BOOLEAN :
         LET pass == scrub_bytes(SelectSeq(compiled_config, Selects), original, debug)
         IN /\ attachment = pass.data
            /\ ranges = pass.redacted
            /\ result = IF pass.panicked THEN "panic"
                        ELSE IF pass.changed THEN "true" ELSE "false"
    /\ (\A i \in DOMAIN compiled_config : ~Selects(compiled_config[i])) =>
         /\ attachment = original
         /\ ranges = {}
         /\ result = "false"

\* An application whose selector does not match comes before one that
\* selects binary attachments: only the rule of the second one has written
\* to the buffer, which holds the text "11".
C27_Witness ==
  /\ result = "true"
  /\ Len(compiled_config) = 2
  /\ ~Selects(compiled_config[1])
  /\ Selects(compiled_config[2])
  /\ original = <<49, 49>>
  /\ attachment # original

\* The slice a replacement is swapped into, as the claim describes it: the
\* longest prefix of whole chars of the replacement whose encoding fits into
\* len bytes, then the padding char in every remaining code unit.
WholeChars(text, len, encoding) ==
  LET Encoded(n) == IF encoding = "utf8" THEN as_bytes(SubSeq(text, 1, n))
                    ELSE Flatten([i \in 1..Len(utf16_units(SubSeq(text, 1, n))) |->
                                    to_le_bytes(utf16_units(SubSeq(text, 1, n))[i])])
      fits == CHOOSE n \in 0..Len(text) :
                /\ Len(Encoded(n)) <= len
                /\ \A m \in 0..Len(text) : Len(Encoded(m)) <= len => m <= n
      pad == IF encoding = "utf8" THEN <<PADDING>> ELSE to_le_bytes(PADDING)
  IN Encoded(fits) \o Flatten(Repeat(pad, (len - Len(Encoded(fits))) \div Len(pad)))

\* One rule that replaces the matches of the pattern has redacted one range.
Swapped ==
  /\ result = "true"
  /\ Len(compiled_config) = 1
  /\ Len(compiled_config[1].rules) = 1
  /\ compiled_config[1].rules[1].ty = "pattern"
  /\ compiled_config[1].rules[1].redaction.method = "replace"
  /\ Cardinality(ranges) = 1

\* C28: swap_content writes into the slice the longest prefix of whole chars
\* of the replacement that fits and fills every remaining code unit with the
\* padding char: it never writes a part of a char that takes several code
\* units (no lone surrogate in UTF-16LE, no split sequence in UTF-8).
C28_Original ==
  Swapped =>
    \A r \in ranges :
      LET text == compiled_config[1].rules[1].redaction.text
      IN Slice(attachment, r[1], r[2]) \in
           {WholeChars(text, r[2] - r[1], "utf8"), WholeChars(text, r[2] - r[1], "utf16le")}

\* The UTF-16LE text "11" before an "a" is replaced by a text that starts
\* with U+10000: the slice of four bytes holds the leading surrogate 0xD800
\* alone, then the padding char.
C28_Witness ==
  /\ Swapped
  /\ original = <<49, 0, 49, 0, 97, 0>>
  /\ compiled_config[1].rules[1].redaction.text = <<65536, 114>>
  /\ attachment = <<0, 216, 120, 0, 97, 0>>

(***************************************************************************)
(* Claims about the project cache                                          *)
(***************************************************************************)

\* The projects the queue holds an update for.
Stamped == {updates[i].project_id : i \in DOMAIN updates}

\* The most recent update timestamp of a project of the queue.
LastUpdateOf(p) ==
  CHOOSE t \in {updates[i].instant : i \in {j \in DOMAIN updates : updates[j].project_id = p}} :
    \A i \in DOMAIN updates : updates[i].project_id = p => updates[i].instant <= t

\* The project whose FetchProjectState the step handles.
Fetched == updates'[Len(updates')].project_id

\* C19 as stated: a step that handles FetchProjectState(id) evicts exactly
\* the cached projects, other than id, whose most recent update timestamp is
\* older than 2 * project_expiry.
C19_Original ==
  [][updates' # updates =>
       projects \ projects' =
          {p \in (projects \cap Stamped) \ {Fetched} :
             clock - LastUpdateOf(p) > 2 * project_cache_expiry}]_vars

\* C19 (amended): a step that handles FetchProjectState(id) evicts exactly
\* the cached projects, other than id, whose most recent update timestamp is
\* 2 * project_expiry old or older; a project updated more recently than
\* that, a project without an update, and the project id itself are not
\* evicted, and no other step evicts a project.
C19_EvictsOutdated ==
  [][/\ updates' # updates =>
          projects \ projects' =
             {p \in (projects \cap Stamped) \ {Fetched} :
                clock - LastUpdateOf(p) >= 2 * project_cache_expiry}
     /\ updates' = updates => projects \subseteq projects']_vars

\* A project was evicted by the request of another project, while a third
\* project, updated more recently, is still cached.
C19_Witness ==
  /\ updates # <<>>
  /\ \E p \in started \ projects :
       \E q \in projects \cap Stamped :
         /\ p # updates[Len(updates)].project_id
         /\ q # updates[Len(updates)].project_id
         /\ clock - LastUpdateOf(q) < 2 * project_cache_expiry
         /\ updates[Len(updates)].instant = clock

\* C20 as stated: no step removes from the cache a project whose
\* FetchProjectState response is pending, whichever project's request the
\* step handles.
C20_Original ==
  [][\A p \in fetching \cap projects : p \in projects']_vars

\* C39: after any sequence of FetchProjectState messages the update queue
\* holds at most one record for a project id, its timestamps do not decrease
\* from the front to the back, and its last record is the one of the id that
\* was fetched last.
C39_QueueOrdered ==
  /\ \A i, j \in DOMAIN updates :
       i < j => /\ updates[i].project_id # updates[j].project_id
                /\ updates[i].instant <= updates[j].instant
  /\ message # None =>
       /\ updates # <<>>
       /\ updates[Len(updates)].project_id = message

\* p1 was fetched, then p2, and after a tick p1 again: the queue holds p2
\* before p1, which has the later timestamp.
C39_Witness ==
  /\ message = "p1"
  /\ fetching = {"p1", "p2"}
  /\ Len(updates) = 2
  /\ updates[1].project_id = "p2"
  /\ updates[2].project_id = "p1"
  /\ updates[1].instant < updates[2].instant

(***************************************************************************)
(* Claims about the conversion of the data scrubbing configuration         *)
(***************************************************************************)

\* to_pii_config was called.
Converted == pii_config.returned # "unset"

\* The ids of the rules the returned configuration applies.
AppliedRules ==
  UNION {{pii_config.applications[i].rules[j] : j \in DOMAIN pii_config.applications[i].rules} :
           i \in DOMAIN pii_config.applications}

\* The sensitive fields of the configuration that are not empty, in order.
NonEmptyFields ==
  SelectSeq(datascrubbing_config.sensitive_fields, LAMBDA field : field # <<>>)

\* The excluded fields of the configuration.
Excluded ==
  {datascrubbing_config.exclude_fields[i] : i \in DOMAIN datascrubbing_config.exclude_fields}

\* C22: when exclude_fields contains x, no rule of the configuration that
\* to_pii_config produced fires on a node whose final path segment is the key
\* x, for one excluded field and for several: the one application has the
\* conjunction of the negated key selectors as its selector, so that its rules
\* are applied at exactly the nodes whose final key is not excluded.
C22_ExcludedNeverFires ==
  /\ pii_config.returned = "Some" => Len(pii_config.applications) = 1
  /\ node # <<>> =>
       applied = IF node[Len(node)].key \in Excluded THEN <<>>
                 ELSE pii_config.applications[1].rules

\* Two fields are excluded, and the processor is at a node below another key
\* whose own key is the second of them: nothing is applied.
C22_Witness ==
  /\ pii_config.returned = "Some"
  /\ datascrubbing_config.exclude_fields = <<"x", "y">>
  /\ Len(node) = 2
  /\ node[1].key = "z"
  /\ node[2].key = "y"
  /\ applied = <<>>

C24_Original ==
  Converted =>
    LET RECURSIVE joined(_)
        joined(fields) ==
          IF fields = <<>> THEN <<>>
          ELSE escape(Head(fields))
                 \o (IF Tail(fields) = <<>> THEN <<>> ELSE <<"|">> \o joined(Tail(fields)))
    IN IF datascrubbing_config.scrub_data /\ NonEmptyFields # <<>>
       THEN /\ Len(pii_config.rules) = 1
            /\ pii_config.rules[1].id = "strip-fields"
            /\ pii_config.rules[1].key_pattern =
                 <<".", "*", "(">> \o joined(NonEmptyFields) \o <<")", ".", "*">>
       ELSE pii_config.rules = <<>>

\* The first sensitive field is empty and the second is "a": the key pattern
\* is `.*(|a).*`, whose first alternative is empty.
C24_Witness ==
  /\ pii_config.returned = "Some"
  /\ datascrubbing_config.sensitive_fields = <<<<>>, <<"a">>>>
  /\ Len(pii_config.rules) = 1
  /\ pii_config.rules[1].key_pattern = <<".", "*", "(", "|", "a", ")", ".", "*">>

(***************************************************************************)
(* Claims about the rate-limit header                                      *)
(***************************************************************************)

\* The limits of a RateLimits value, without their order.
LimitSet(limits) == {limits[i] : i \in DOMAIN limits}

\* The header that was parsed is the one format_rate_limits writes for the
\* rate limits.
Formatted == parsed.done /\ header.text = format_rate_limits(rate_limits)

\* The entries of the header, and whether parse_rate_limits keeps one: it is
\* not empty and starts with a number.
HeaderEntries == Split(header.text, ",")

IsKept(entry) ==
  /\ trim(entry) # <<>>
  /\ \E n \in 0..MaxRetry : Head(Split(trim(entry), ":")) = <<ToString(n)>>

\* C25: for every RateLimits value whose scopes belong to the scoping,
\* parse_rate_limits of format_rate_limits of the value holds the same
\* limits, each with its categories, its scope, its reason code and its
\* seconds, in any order.
C25_Original ==
  (/\ Formatted
   /\ \A i \in DOMAIN rate_limits :
        rate_limits[i].scope.id \in {Scoping.organization_id, Scoping.project_id})
    => LimitSet(parsed.limits) = LimitSet(rate_limits)

\* A limit of the organization with the reason code `a:b` was formatted and
\* parsed: the reason code of the parsed limit is `a`.
C25_Witness ==
  /\ Formatted
  /\ Len(rate_limits) = 1
  /\ rate_limits[1].scope.id = Scoping.organization_id
  /\ rate_limits[1].reason_code = [some |-> TRUE, code |-> <<"a", ":", "b">>]
  /\ Len(parsed.limits) = 1
  /\ parsed.limits[1].reason_code = [some |-> TRUE, code |-> <<"a">>]

\* C26: parse_rate_limits returns for every header.  An entry that is empty,
\* or whose first component is missing or not a number, adds nothing, and
\* the result is the one of the kept entries added one after the other;
\* a kept entry has one category for each non-empty piece of its second
\* component, in their order, which is Unknown exactly where the piece is
\* not the name of a category.
C26_InvalidSkipped ==
  parsed.done =>
    LET alone(entry) == parse_rate_limits(Scoping, entry)
        RECURSIVE merged(_, _)
        merged(limits, rest) ==
          IF rest = <<>> THEN limits
          ELSE merged(IF IsKept(Head(rest)) THEN add(limits, alone(Head(rest))[1])
                      ELSE limits,
                      Tail(rest))
    IN /\ parsed.limits = merged(<<>>, HeaderEntries)
       /\ \A i \in DOMAIN HeaderEntries :
            LET entry == HeaderEntries[i]
                components == Split(trim(entry), ":")
                pieces == IF Len(components) >= 2
                          THEN SelectSeq(Split(components[2], ";"), LAMBDA c : c # <<>>)
                          ELSE <<>>
            IN IF IsKept(entry)
               THEN /\ Len(alone(entry)) = 1
                    /\ Len(alone(entry)[1].categories) = Len(pieces)
                    /\ \A k \in DOMAIN pieces :
                         alone(entry)[1].categories[k] =
                           IF \E c \in DataCategory : pieces[k] = <<c>> THEN pieces[k][1]
                           ELSE "unknown"
               ELSE alone(entry) = <<>>

\* A header of an entry that is not a number followed by an entry with the
\* categories foobar and transaction: the result is the one limit of the
\* second entry, whose first category is Unknown.
C26_Witness ==
  /\ parsed.done
  /\ Len(HeaderEntries) = 2
  /\ HeaderEntries[1] = <<"invalid">>
  /\ Len(parsed.limits) = 1
  /\ parsed.limits[1].categories = <<"unknown", "transaction">>
  /\ parsed.limits[1].scope = [name |-> "project", id |-> Scoping.project_id]

(***************************************************************************)
(* Claims about the relay-info response                                    *)
(***************************************************************************)

\* C29: the conversion of a relay-info response answers the current relays
\* map whenever it is not empty, and also when both maps are empty; exactly
\* when the current map is empty and the legacy public_keys map is not, it
\* answers the legacy map promoted: the same ids, each key as a RelayInfo
\* with that key that is not internal, each null as null.
C29_LegacyPromoted ==
  relays_result.converted =>
    LET legacy == relays_info.public_keys
        current == relays_info.relays
        converted == relays_result.relays
    IN IF DOMAIN current = {} /\ DOMAIN legacy # {}
       THEN /\ DOMAIN converted = DOMAIN legacy
            /\ \A id \in DOMAIN legacy :
                 IF legacy[id] = None THEN ~converted[id].some
                 ELSE /\ converted[id].some
                      /\ converted[id].public_key = legacy[id]
                      /\ ~converted[id].internal
       ELSE converted = current

\* A response with no current map and a legacy map of a key and a null was
\* converted: the result has the key, not internal, and the null.
C29_Witness ==
  /\ relays_result.converted
  /\ DOMAIN relays_info.relays = {}
  /\ DOMAIN relays_info.public_keys = {"r1", "r2"}
  /\ relays_info.public_keys["r1"] = "k1"
  /\ relays_info.public_keys["r2"] = None
  /\ relays_result.relays["r1"] = [some |-> TRUE, public_key |-> "k1", internal |-> FALSE]
  /\ ~relays_result.relays["r2"].some

(***************************************************************************)
(* Claims about the credentials of the configuration                       *)
(***************************************************************************)

\* C32: after replace_credentials(c) returned Ok, the credentials of the
\* config are c, also when c is None; it returned Ok(false), and changed
\* neither the credentials nor the file, iff c was equal to the credentials
\* the config had, and Ok(true) otherwise.
C32_Original ==
  replaced.result \in {"Ok(false)", "Ok(true)"} =>
    /\ credentials = replaced.credentials
    /\ replaced.result = "Ok(false)" <=> replaced.credentials = replaced.before.credentials
    /\ replaced.result = "Ok(false)" =>
         /\ credentials = replaced.before.credentials
         /\ credentials_file = replaced.before.file

\* The config had the credentials a and replace_credentials(None) returned
\* Ok(true): the file is gone and the config still has the credentials a.
C32_Witness ==
  /\ replaced.calls = 1
  /\ replaced.before.credentials = "a"
  /\ replaced.credentials = None
  /\ replaced.result = "Ok(true)"
  /\ credentials_file = None
  /\ credentials = "a"

(***************************************************************************)
(* Claims about a message sent with an outcome for its failure             *)
(***************************************************************************)

\* C40: when the future of send_with_outcome_error has resolved, the given
\* outcome was sent exactly once if the message failed with a mailbox error,
\* and no outcome was sent if the actor replied, with Ok or with Err; the
\* error of the future is the one mailbox_error_builder makes of the mailbox
\* error, or the one result_error_builder makes of the error of the handler,
\* and the item of an Ok reply is passed on.
C40_OutcomeOnMailboxError ==
  resolved.status # "pending" =>
    IF delivery.mailbox_error # None
    THEN /\ outcomes = <<delivery.outcome>>
         /\ resolved = [status |-> "Err",
                        value |-> <<"mailbox_error_builder", delivery.mailbox_error>>]
    ELSE /\ outcomes = <<>>
         /\ resolved = IF delivery.result.ok
                       THEN [status |-> "Ok", value |-> <<delivery.result.value>>]
                       ELSE [status |-> "Err",
                             value |-> <<"result_error_builder", delivery.result.value>>]

\* The actor replied with an error: no outcome was sent, and the error of
\* the future is the one of result_error_builder.
C40_Witness ==
  /\ resolved.status = "Err"
  /\ delivery.mailbox_error = None
  /\ ~delivery.result.ok
  /\ resolved.value = <<"result_error_builder", "error">>
  /\ outcomes = <<>>

(***************************************************************************)
(* Claims about the builtin rules                                          *)
(***************************************************************************)

\* C31 as stated: the remark of a substitution has the id of the concrete
\* rule that fired, not the id of the alias the application names.
C31_Original ==
  \A i \in DOMAIN remarks.remarks :
    /\ BUILTIN_RULES_MAP[remarks.remarks[i].rule_id].ty # "alias"
    /\ remarks.remarks[i].rule_id = collect_rules(text_rule.rule_id).id

\* C31 (amended): the remark of a substitution has the rule id the
\* application names: for a builtin alias, which is declared with
\* hide_inner, the id of the alias and not the id of the rule it stands
\* for, and for a rule named directly the id of that rule; the type of the
\* remark is the one of the redaction of the concrete rule.
C31_RemarkKeyedAsReferenced ==
  \A i \in DOMAIN remarks.remarks :
    LET concrete == BUILTIN_RULES_MAP[collect_rules(text_rule.rule_id).id]
    IN /\ remarks.remarks[i].rule_id = text_rule.rule_id
       /\ remarks.remarks[i].ty =
            CASE concrete.redaction = "replace" -> "Substituted"
              [] concrete.redaction = "mask" -> "Masked"
              [] concrete.redaction = "hash" -> "Pseudonymized"

\* The application names @mac and the text has a mac address: the remark is
\* Masked, as for @mac:mask, and has the rule id @mac.
C31_Witness ==
  /\ remarks.processed
  /\ text_rule.rule_id = "@mac"
  /\ remarks.remarks = <<[ty |-> "Masked", rule_id |-> "@mac"]>>

(***************************************************************************)
(* Claims about the segments of a buffer                                   *)
(***************************************************************************)

\* C34: the raw slices of the segments one iterator yields lie inside the
\* buffer, are pairwise disjoint and come in strictly increasing order of
\* their offsets, whatever the buffer holds and whatever the decoder
\* reported in the passes between them.
C34_SegmentsDisjoint ==
  /\ \A i \in DOMAIN segments :
       /\ 0 <= segments[i].start
       /\ segments[i].start <= segments[i].end
       /\ segments[i].end <= Len(iter.data)
  /\ \A i \in DOMAIN segments : \A j \in DOMAIN segments :
       i < j => /\ segments[i].start < segments[j].start
                /\ segments[i].end <= segments[j].start

\* Two segments were yielded, the second one after the bytes of an error
\* that follow the first one.
C34_Witness ==
  /\ Len(segments) = 2
  /\ segments[1].end < segments[2].start
  /\ scanned # <<>>
  /\ scanned[Len(scanned)].start = segments[2].start

\* C36 as stated: a segment is yielded only when its decoded text is longer
\* than 2 UTF-16 code units; a shorter run between undecodable units is
\* skipped and the scan goes on.
C36_Original ==
  /\ \A i \in DOMAIN segments : Len(utf16_units(segments[i].decoded)) > 2
  /\ \A i \in DOMAIN scanned :
       scanned[i].err /\ ~scanned[i].returned => scanned[i].offset > scanned[i].start

\* C37 as stated: every pass of the loop that does not return moves the
\* offset forward, by the extent of the error or by 2 bytes, every call of
\* next returns, and after next returned None it returns None in every
\* later call.
C37_Original ==
  /\ \A i \in DOMAIN scanned :
       ~scanned[i].returned =>
         /\ scanned[i].offset > scanned[i].start
         /\ scanned[i].offset - scanned[i].start =
              (IF scanned[i].upto > 0 THEN scanned[i].upto ELSE 2)
  /\ \A i \in DOMAIN nexts : nexts[i] # "panic"
  /\ \A i \in DOMAIN nexts : \A j \in DOMAIN nexts :
       i < j /\ nexts[i] = "None" => nexts[j] = "None"

\* C35 as stated: for a match of one char or more anywhere in the text of a
\* segment, also one that ends where the text ends, get_wstr_match returns
\* the slice of the segment that holds exactly the code units of the chars
\* of the match: it is not empty, not inverted and not out of range.
C35_Original ==
  match_wstr.called =>
    /\ ~match_wstr.panicked
    /\ match_wstr.encoded_start < match_wstr.encoded_end
    /\ match_wstr.encoded_end <= Len(matched.all_encoded)
    /\ Slice(matched.all_encoded, match_wstr.encoded_start, match_wstr.encoded_end)
         = utf16le(SubSeq(matched.all_text, matched.from + 1, matched.to))

(***************************************************************************)
(* Claims about the future of a FetchProjectState                          *)
(***************************************************************************)

====
